---- MODULE Spec2Model ----
(***************************************************************************)
(* A model of the hydrochess-wasm search engine: the iterative-deepening   *)
(* driver find_best_move, the negamax/PVS search, the quiescence search    *)
(* and the transposition table (engine.rs, tt.rs).                         *)
(*                                                                         *)
(* The recursion of negamax and quiescence_search is an explicit stack of  *)
(* frames; every action is one straight-line segment of a function, from   *)
(* one call or return to the next.  The rules engine (legal moves, make,   *)
(* rewind, in-check) is an abstract layered game tree drawn in Init.       *)
(***************************************************************************)
EXTENDS Integers, Sequences, FiniteSets, TLC

(***************************************************************************)
(* Program constants (engine.rs).                                          *)
(***************************************************************************)
INFINITY == 32000
MATE_VALUE == INFINITY - 150
MATE_SCORE == INFINITY - 300
NO_ENTRY == INFINITY - 500
TIME_UP == INFINITY + 500
NMP_R == 3
LMR_MIN_DEPTH == 3
LMR_MIN_MOVES == 3
LMR_REDUCTION == 1
HISTORY_MAX == 10000
HISTORY_BONUS_DEPTH == 2

(***************************************************************************)
(* Bounds of the model.  MAX_PLY is 64 and the node period of the deadline *)
(* test is 2047 in engine.rs; the table holds 262144 entries in tt.rs.     *)
(* They are scaled down here so that the ply limit, the deadline test and  *)
(* a full table are all reached.                                           *)
(***************************************************************************)
MAX_PLY == 7
NODE_CHECK_PERIOD == 3
TT_SIZE == 1

(***************************************************************************)
(* Small helpers.                                                          *)
(***************************************************************************)
Max(a, b) == IF a >= b THEN a ELSE b
Min(a, b) == IF a <= b THEN a ELSE b
Abs(a) == IF a < 0 THEN -a ELSE a

\* Option<T>: None is the empty sequence, Some(x) a one-element sequence.
None == << >>
Some(x) == << x >>
IsSome(o) == Len(o) = 1
Unwrap(o) == o[1]

Plies == 0 .. (MAX_PLY - 1)

(***************************************************************************)
(* The rules engine, abstracted.  A position is the sequence of moves made *)
(* from the root (the make/rewind stack of the game object); 0 stands for  *)
(* a null move.  The legal moves of a position and their flags depend on   *)
(* the layer (the length of the path); a move is an index into the layer's *)
(* list, which plays the part of its start and end coordinates.            *)
(***************************************************************************)
NULL_MOVE == 0

\* A move kind: what the move changes in the static evaluation for the side
\* that makes it, and the flags the engine reads from the full move.
Quiet(g) == [gain |-> g, cap |-> FALSE, promo |-> FALSE]
Capture(g) == [gain |-> g, cap |-> TRUE, promo |-> FALSE]
Promotion(g) == [gain |-> g, cap |-> FALSE, promo |-> TRUE]

\* Layer lists of the games.  A line is one move per layer, long enough to
\* run into the ply limit.
Line(k) == [i \in 1 .. (MAX_PLY + 1) |-> << k >>]
Wide(n, k) == [i \in 1 .. n |-> k]

Layerings ==
  { Line(Quiet(1)),
    Line(Capture(150)),
    << << Quiet(1) >>, << Quiet(150) >>, << Quiet(0) >> >>,
    << << Quiet(1), Capture(150) >>, << Quiet(-150), Capture(300) >>, << Quiet(150) >> >>,
    << << Quiet(1) >>, << Quiet(300), Quiet(150) >>, << Capture(150) >> >>,
    << Wide(4, Quiet(1)), << Quiet(0) >>, << Quiet(-150) >> >>,
    << << Quiet(0) >>, Wide(8, Quiet(0)) \o << Promotion(900) >> >>,
    << << Quiet(100) >>, Wide(3, Capture(10)) \o << Quiet(40) >>, << Quiet(0) >>,
       << Quiet(0) >> >>,
    << << Quiet(50), Capture(100), Quiet(1) >>, << Quiet(10) >> >>,
    << << Quiet(100) >>, << Quiet(90) >>, << Quiet(80) >>, << Quiet(70) >>,
       << Quiet(60) >>, << Quiet(50) >>, << Quiet(20) >> >>,
    << >> }

CheckSets == { {}, {0, 1, 3}, {2} }
Bases == { 0, -200 }
DecayFactors == { << 1, 2 >>, << 1, 1 >> }

\* What a move gains beyond its kind after the moves that led to it: the
\* reply to the second root move is stronger in the second set.
Extras == { [q \in {} |-> 0], [q \in { << 2, 1 >> } |-> 70] }

NoExtra == [q \in {} |-> 0]

\* A game in which a reply that is legal after one move of a node is not legal
\* after the node's other move: blocked holds the positions no move leads to.
PinnedLayering ==
  << << Quiet(1) >>, << Quiet(5) >>, << Quiet(5), Quiet(0) >>, << Quiet(5) >> >>
PinnedGames ==
  [layers : { PinnedLayering }, checks : { {2} }, base : Bases, extra : { NoExtra },
   blocked : { { << 1, 1, 2, 1 >> } },
   pawns_only : { FALSE },
   string_coords : { FALSE }]

\* A game in which every position is a check and the line ends, with the side
\* to move mated, at the ply limit.
CheckedLayering ==
  << << Quiet(100) >>, << Quiet(90) >>, << Quiet(80) >>, << Quiet(70) >>,
     << Quiet(60) >>, << Quiet(50) >>, << Quiet(20) >> >>
CheckedGames ==
  [layers : { CheckedLayering }, checks : { 0 .. MAX_PLY }, base : { 0 },
   extra : { NoExtra }, blocked : { {} }, pawns_only : { FALSE },
   string_coords : { FALSE }]

\* A game whose first root move checkmates (the reply to it is not legal) and
\* whose second root move captures with check and can be answered.
MatingLayering == << << Quiet(1), Capture(100) >>, << Quiet(0) >> >>
MatingGames ==
  [layers : { MatingLayering }, checks : { {1} }, base : { 0 },
   extra : { NoExtra }, blocked : { { << 1, 1 >> } }, pawns_only : { FALSE },
   string_coords : { FALSE }]

\* A king-and-pawn ending: the sides have no other piece in any position of
\* the game, and every move is a quiet pawn move.
PawnGames ==
  [layers : { Line(Quiet(1)) }, checks : { {} }, base : { 0 },
   extra : { NoExtra }, blocked : { {} }, pawns_only : { TRUE },
   string_coords : { FALSE }]

\* A game with two root moves that each win a pawn.  The second has ten
\* replies: eight captures of a queen that is taken back, a quiet promotion
\* to a knight and a quiet move.  The first leaves only the promotion and the quiet move,
\* and the quiet move, which is not answered by the recapture, refutes it.
\* The rules engine hands the coordinates of its moves out as objects with x
\* and y or, in the second game, as JS strings.
LateQuietLayering ==
  << << Quiet(100), Quiet(100) >>,
     Wide(8, Capture(1400)) \o << Promotion(200), Quiet(100) >>,
     << Capture(1400) >> >>
LateQuietGames ==
  [layers : { LateQuietLayering }, checks : { {} }, base : { 0 },
   extra : { NoExtra },
   blocked : { { << 1, m >> : m \in 1 .. 8 } \cup { << 1, 10, 1 >> } },
   pawns_only : { FALSE },
   string_coords : BOOLEAN]

Games ==
  [layers : Layerings, checks : CheckSets, base : Bases, extra : Extras,
   blocked : { {} }, pawns_only : { FALSE },
   string_coords : { FALSE }]
  \cup PinnedGames \cup CheckedGames \cup MatingGames \cup PawnGames
  \cup LateQuietGames

VARIABLES
  game,            \* the game under search (rules engine + evaluation inputs)
  decay,           \* the decay policy of the history scores (a factor num/den)
  pos,             \* the game object lf: the moves made and not yet rewound
  STOP, TT_HITS,
  nodes, ply, follow_pv, score_pv, data_best_move,      \* SearchData
  killer_moves, history, counter_moves, continuation_history,
  pv_table, pv_length,
  tt, current_age, \* TranspositionTable.table, .current_age
  stack,           \* the frames of negamax / quiescence_search in flight
  ret,             \* the value returned by the call that ended last
  dpc, iter_depth, best_move, result,                   \* find_best_move
  lastRet,         \* observation: the call that ended last
  stopMark,        \* observation: frames in flight since STOP was set
  adopted,         \* observation: PV[0][0] at the end of the last completed iteration
  entered,         \* observation: plies negamax entered in this iteration
  lastStore,       \* observation: the last store applied to the table on its own
  lastProbe,       \* observation: the last probe applied to the table on its own
  steps,           \* operations applied to a table or a history map on its own
  board,           \* the board generate_hash is given: pieces as enumerated, whosTurn
  overflow_checks, \* the build: whether integer overflow is checked (panics)
  hashed,          \* observation: the last two hashes computed, newest first
  tt_size,         \* TranspositionTable.size
  origin,          \* observation: how the entry of each hash was written
  polled,          \* observation: the node counted last and its deadline test
  expiredAt,       \* the clock: the node count at which the deadline passed
  evaluated,       \* observation: the last two evaluations, newest first
  penalised,       \* observation: the last quiet beta cutoff applied to a history map
  scored,          \* observation: the move score_move was applied to last, and its score
  normalized       \* observation: the coordinate normalised last, and its value

vars == << game, decay, pos, STOP, TT_HITS, nodes, ply, follow_pv, score_pv,
           data_best_move, killer_moves, history, counter_moves,
           continuation_history, pv_table, pv_length, tt, current_age, stack,
           ret, dpc, iter_depth, best_move, result, lastRet, stopMark,
           adopted, entered, lastStore, lastProbe, steps, board,
           overflow_checks, hashed, tt_size, origin, polled, expiredAt,
           evaluated, penalised, scored, normalized >>

(***************************************************************************)
(* Rules-engine operations on the abstract game.                           *)
(***************************************************************************)
Layer(p) == Len(p)
KindOf(p, m) == game.layers[Layer(p) + 1][m]

\* getLegalMoves: the moves of the layer that lead to a position of the game,
\* in generation order.
LegalMoves(p) ==
  IF Layer(p) < Len(game.layers)
  THEN SelectSeq([i \in 1 .. Len(game.layers[Layer(p) + 1]) |-> i],
                 LAMBDA m : Append(p, m) \notin game.blocked)
  ELSE << >>

InCheck(p) == Layer(p) \in game.checks
is_capture(p, m) == KindOf(p, m).cap
is_promotion(p, m) == KindOf(p, m).promo

\* makeMove / makeNullMove push on the game's move stack, rewindMove pops.
MakeMove(p, m) == Append(p, m)
MakeNullMove(p) == Append(p, NULL_MOVE)
\* Mutant of RewindMove: the rewind is left out once the stop flag is set.
RewindMove_SkippedOnStop(p) ==
  IF STOP \/ Len(p) = 0 THEN p ELSE SubSeq(p, 1, Len(p) - 1)
RewindMove(p) == IF Len(p) = 0 THEN p ELSE SubSeq(p, 1, Len(p) - 1)

\* filterCaptureMovesJs
RECURSIVE FilterSeq(_, _)
FilterSeq(p, ms) ==
  IF ms = << >> THEN << >>
  ELSE IF is_capture(p, Head(ms))
       THEN << Head(ms) >> \o FilterSeq(p, Tail(ms))
       ELSE FilterSeq(p, Tail(ms))
FilterCaptures(p, ms) == FilterSeq(p, ms)

\* evaluate_position: a score of the board for the side to move.  The board
\* is summarised by the balance the moves made have built up from the root's
\* point of view; the last step of evaluate_position negates it for the
\* second player.
ExtraGain(q) == IF q \in DOMAIN game.extra THEN game.extra[q] ELSE 0
GainAt(p, i) ==
  IF p[i] = NULL_MOVE THEN 0
  ELSE game.layers[i][p[i]].gain + ExtraGain(SubSeq(p, 1, i))
RECURSIVE Balance(_, _)
Balance(p, n) ==
  IF n = 0 THEN game.base
  ELSE Balance(p, n - 1) + (IF n % 2 = 1 THEN GainAt(p, n) ELSE -GainAt(p, n))
evaluate_position(p) ==
  IF Len(p) % 2 = 0 THEN Balance(p, Len(p)) ELSE -Balance(p, Len(p))

\* generate_hash of the board of a position: distinct paths are distinct
\* boards here, so the hash is the path written in base 16.
RECURSIVE PathCode(_, _)
PathCode(p, n) ==
  IF n = 0 THEN 1 ELSE PathCode(p, n - 1) * 16 + (p[n] + 1)
generate_hash(p) == PathCode(p, Len(p))

(***************************************************************************)
(* The transposition table (tt.rs).  The table is a map from hash to       *)
(* entry; its domain is the set of keys of the HashMap.                    *)
(***************************************************************************)
TTFlags == { "EXACT", "LOWER_BOUND", "UPPER_BOUND" }
DEPTH_PREFERENCE == 4
AGE_PREFERENCE == 2
EXACT_PREFERENCE == 8

\* store: the mate-score adjustment applied to the score before it is kept.
AdjustScoreForStore(score, plyv) ==
  IF score < -MATE_SCORE THEN score - plyv
  ELSE IF score > MATE_SCORE THEN score + plyv
  ELSE score

\* Mutant of AdjustScoreForProbe: the kept score is returned as it is.
AdjustScoreForProbe_Unadjusted(score, plyv) == score

\* probe: the reverse adjustment applied to the score that was kept.
AdjustScoreForProbe(score, plyv) ==
  IF score < -MATE_SCORE THEN score + plyv
  ELSE IF score > MATE_SCORE THEN score - plyv
  ELSE score

TTInsert(table, age, hash, depth, flag, score, bm, plyv) ==
  LET e == [hash |-> hash, depth |-> depth, flag |-> flag,
            score |-> AdjustScoreForStore(score, plyv),
            best_move |-> bm, age |-> age, ply |-> plyv]
  IN [h \in (DOMAIN table) \cup {hash} |-> IF h = hash THEN e ELSE table[h]]

\* store: whether an existing entry for the hash is kept when the table is full.
KeepsExisting(entry, age, hash, depth, flag) ==
  IF entry.hash = hash
  THEN IF flag = "EXACT" /\ (entry.flag # "EXACT" \/ depth >= entry.depth)
       THEN FALSE
       ELSE IF entry.flag = "EXACT" /\ flag # "EXACT" /\ entry.depth > depth
       THEN TRUE
       ELSE IF depth >= entry.depth - 1
       THEN FALSE
       ELSE IF entry.age # age
       THEN FALSE
       ELSE TRUE
  ELSE LET entry_value == entry.depth * DEPTH_PREFERENCE
                          + (IF entry.age = age THEN AGE_PREFERENCE ELSE 0)
                          + (IF entry.flag = "EXACT" THEN EXACT_PREFERENCE ELSE 0)
           new_value == depth * DEPTH_PREFERENCE + AGE_PREFERENCE
                        + (IF flag = "EXACT" THEN EXACT_PREFERENCE ELSE 0)
       IN new_value <= entry_value

\* store: whether the call writes its entry: always while the table is not
\* full, and otherwise unless the entry under the hash is kept.
StoreWrites(table, size, age, hash, depth, flag) ==
  IF Cardinality(DOMAIN table) < size THEN TRUE
  ELSE IF hash \in DOMAIN table
       THEN ~KeepsExisting(table[hash], age, hash, depth, flag)
       ELSE TRUE

\* Mutant of increment_age: the age stays as it is.
increment_age_Skipped(age) == age

\* TranspositionTable::increment_age: current_age += 1 on an i32, which the
\* searches of a session do not exhaust.
increment_age(age) == age + 1

\* TranspositionTable::store
TTStore(table, size, age, hash, depth, flag, score, bm, plyv) ==
  IF StoreWrites(table, size, age, hash, depth, flag)
  THEN TTInsert(table, age, hash, depth, flag, score, bm, plyv)
  ELSE table

\* What probe returns: a JS number (a score, NO_ENTRY included) or a move object.
ProbeScore(v) == [is_move |-> FALSE, score |-> v, move |-> None]
ProbeMove(m) == [is_move |-> TRUE, score |-> 0, move |-> m]

\* Mutant of ProbeByFlag: the two bound flags are matched the other way round.
ProbeByFlag_BoundsSwapped(entry, alpha, beta, plyv, otherwise) ==
  LET score == AdjustScoreForProbe(entry.score, plyv)
  IN IF entry.flag = "EXACT" THEN ProbeScore(score)
     ELSE IF entry.flag = "UPPER_BOUND" /\ score >= beta THEN ProbeScore(beta)
     ELSE IF entry.flag = "LOWER_BOUND" /\ score <= alpha THEN ProbeScore(alpha)
     ELSE otherwise

\* probe: the part that matches the flag against the window.
ProbeByFlag(entry, alpha, beta, plyv, otherwise) ==
  LET score == AdjustScoreForProbe(entry.score, plyv)
  IN IF entry.flag = "EXACT" THEN ProbeScore(score)
     ELSE IF entry.flag = "LOWER_BOUND" /\ score >= beta THEN ProbeScore(beta)
     ELSE IF entry.flag = "UPPER_BOUND" /\ score <= alpha THEN ProbeScore(alpha)
     ELSE otherwise

\* Mutant of TTProbe: the depth of the entry is not compared with the depth asked.
TTProbe_AnyDepth(table, hash, alpha, beta, depth, plyv) ==
  IF hash \in DOMAIN table /\ table[hash].hash = hash
  THEN ProbeByFlag(table[hash], alpha, beta, plyv,
                   IF IsSome(table[hash].best_move)
                   THEN ProbeMove(table[hash].best_move)
                   ELSE ProbeScore(NO_ENTRY))
  ELSE ProbeScore(NO_ENTRY)

\* TranspositionTable::probe
TTProbe(table, hash, alpha, beta, depth, plyv) ==
  IF hash \in DOMAIN table /\ table[hash].hash = hash
  THEN LET entry == table[hash]
       IN IF IsSome(entry.best_move)
          THEN IF entry.depth < depth
               THEN ProbeMove(entry.best_move)
               ELSE ProbeByFlag(entry, alpha, beta, plyv, ProbeMove(entry.best_move))
          ELSE IF entry.depth >= depth
               THEN ProbeByFlag(entry, alpha, beta, plyv, ProbeScore(NO_ENTRY))
               ELSE ProbeScore(NO_ENTRY)
  ELSE ProbeScore(NO_ENTRY)

(***************************************************************************)
(* Move ordering (evaluation.rs score_move, sorted as order_moves does).   *)
(***************************************************************************)
\* JsValue::as_string of the start and end coordinates of a move: the string
\* for coordinates that are JS strings, None for every other value.
coords_as_string(m) == IF game.string_coords THEN Some(m) ELSE None

\* get_move_key: x and y of the start and end coordinates of the move; on
\* coordinates that are strings no x or y can be read and each is taken as 0.
get_move_key(m) == IF game.string_coords THEN 0 ELSE m

\* moves_are_equal: false for a null move object and when an x or y of either
\* move is undefined, otherwise equality of the coordinates and the promotion.
moves_are_equal(o, m) == ~game.string_coords /\ o = Some(m)
ContinuationKey(prev_key, move_key) == << prev_key, move_key >>

\* The key of the move score_move and negamax take for the previous move.
PrevMoveKey(plyv) ==
  IF plyv > 0 /\ IsSome(pv_table[0][plyv - 1])
  THEN Some(get_move_key(Unwrap(pv_table[0][plyv - 1])))
  ELSE None

\* Piece types (evaluation.rs 40-79): colour * NUM_TYPES + raw type.
NUM_TYPES == 22
RAW_TYPE_KING == 2
RAW_TYPE_KNIGHTRIDER == 6
RAW_TYPE_AMAZON == 7
RAW_TYPE_QUEEN == 8
RAW_TYPE_ROYALQUEEN == 9
RAW_TYPE_CHANCELLOR == 11
RAW_TYPE_ARCHBISHOP == 12
RAW_TYPE_KNIGHT == 16
RAW_TYPE_GUARD == 17
RAW_TYPE_ROOK == 19
RAW_TYPE_BISHOP == 20
RAW_TYPE_PAWN == 21
WHITE == 1
BLACK == 2
get_raw_type(piece_type) == piece_type % NUM_TYPES
get_color_from_type(piece_type) == piece_type \div NUM_TYPES
build_type(raw_type, player) == player * NUM_TYPES + raw_type

\* as_f64().unwrap_or(0.0) as i32 of a piece type read from the board or the
\* move: 0 when there is none.
TypeOrZero(o) == IF IsSome(o) THEN Unwrap(o) ELSE 0

\* Lines 225-232: the bonus for the class of the captured piece.
VictimBonus(captured_raw_type) ==
  IF captured_raw_type \in { RAW_TYPE_QUEEN, RAW_TYPE_ROYALQUEEN, RAW_TYPE_AMAZON } THEN 5000
  ELSE IF captured_raw_type \in { RAW_TYPE_ROOK, RAW_TYPE_CHANCELLOR } THEN 4000
  ELSE IF captured_raw_type \in { RAW_TYPE_BISHOP, RAW_TYPE_ARCHBISHOP } THEN 3000
  ELSE IF captured_raw_type \in { RAW_TYPE_KNIGHT, RAW_TYPE_KNIGHTRIDER } THEN 2000
  ELSE IF captured_raw_type = RAW_TYPE_PAWN THEN 1000
  ELSE 500

\* Lines 236-247 and 326-339: the bonus for the piece promoted to, 0 for a
\* move that does not promote.
PromotionBonus(promotion) ==
  LET promotion_raw_type == get_raw_type(TypeOrZero(promotion))
  IN IF ~IsSome(promotion) THEN 0
     ELSE IF promotion_raw_type \in { RAW_TYPE_QUEEN, RAW_TYPE_ROYALQUEEN, RAW_TYPE_AMAZON } THEN 4000
     ELSE IF promotion_raw_type \in { RAW_TYPE_ROOK, RAW_TYPE_CHANCELLOR } THEN 3000
     ELSE IF promotion_raw_type \in { RAW_TYPE_BISHOP, RAW_TYPE_ARCHBISHOP } THEN 2000
     ELSE IF promotion_raw_type \in { RAW_TYPE_KNIGHT, RAW_TYPE_KNIGHTRIDER } THEN 1000
     ELSE 0

\* Line 235: score -= moved_raw_type * 10.
AttackerTerm(moved_raw_type) == moved_raw_type * 10

\* score_move on a move given by what the function reads of it and of the
\* tables: ply is data.ply; pv says that data.score_pv is set and the move
\* equals PV_TABLE[0][ply]; tt that it equals the TT move; moved and captured
\* are the types on its start and end squares; killer1, killer2 and counter
\* say that it equals the killer of the ply and the counter move filed under
\* the previous move; cont and hist are its entries of the continuation
\* history and of the history, if any.
score_move(mv) ==
  LET moved_raw_type == get_raw_type(TypeOrZero(mv.moved))
      killer1 == IF mv.ply < MAX_PLY /\ mv.killer1 THEN 4000 ELSE 0
      killer2 == IF mv.ply < MAX_PLY /\ mv.killer2 THEN 2500 ELSE 0
      counter == IF mv.ply > 0 /\ mv.counter THEN 3500 ELSE 0
      cont == IF mv.ply > 0 /\ IsSome(mv.cont) THEN Unwrap(mv.cont) \div 32 ELSE 0
      quiet == killer1 + killer2 + counter + cont
      hist == IF IsSome(mv.hist) THEN (1500 * Unwrap(mv.hist)) \div HISTORY_MAX ELSE 0
  IN IF mv.ply = 0 /\ mv.pv THEN 20000
     ELSE IF mv.tt THEN 16000
     ELSE IF mv.en_passant THEN 8000 + 1000 - (moved_raw_type % 22)
     ELSE IF IsSome(mv.captured)
          THEN 8000 + VictimBonus(get_raw_type(Unwrap(mv.captured)))
                 - AttackerTerm(moved_raw_type) + PromotionBonus(mv.promotion)
     ELSE IF IsSome(mv.promotion) THEN quiet + 9000 + PromotionBonus(mv.promotion)
     ELSE quiet + hist

\* The pieces of a move of the abstract game: a promotion is a pawn's move
\* and every other move a knight's, and the piece captured and the piece
\* promoted to are of the class the gain stands for.
MovedInGame(k) ==
  Some(build_type(IF k.promo THEN RAW_TYPE_PAWN ELSE RAW_TYPE_KNIGHT, WHITE))
CapturedInGame(k) ==
  IF ~k.cap THEN None
  ELSE Some(build_type(IF k.gain >= 1400 THEN RAW_TYPE_QUEEN
                       ELSE IF k.gain >= 650 THEN RAW_TYPE_ROOK
                       ELSE IF k.gain >= 450 THEN RAW_TYPE_BISHOP
                       ELSE IF k.gain >= 300 THEN RAW_TYPE_KNIGHT
                       ELSE IF k.gain >= 100 THEN RAW_TYPE_PAWN
                       ELSE RAW_TYPE_GUARD, BLACK))

PromotedInGame(k) ==
  IF ~k.promo THEN None
  ELSE Some(build_type(IF k.gain >= 900 THEN RAW_TYPE_QUEEN
                       ELSE IF k.gain >= 550 THEN RAW_TYPE_ROOK
                       ELSE IF k.gain >= 350 THEN RAW_TYPE_BISHOP
                       ELSE RAW_TYPE_KNIGHT, WHITE))

\* What score_move reads of move m of position p at ply plyv.
MoveInGame(p, m, plyv, tt_best_move) ==
  LET k == KindOf(p, m)
      prev == PrevMoveKey(plyv)
      ckey == IF IsSome(prev) THEN ContinuationKey(Unwrap(prev), get_move_key(m)) ELSE << >>
  IN [ply |-> plyv,
      pv |-> score_pv /\ plyv < MAX_PLY /\ moves_are_equal(pv_table[0][plyv], m),
      tt |-> moves_are_equal(tt_best_move, m),
      en_passant |-> FALSE,
      moved |-> MovedInGame(k),
      captured |-> CapturedInGame(k),
      promotion |-> PromotedInGame(k),
      killer1 |-> plyv < MAX_PLY /\ moves_are_equal(killer_moves[0][plyv], m),
      killer2 |-> plyv < MAX_PLY /\ moves_are_equal(killer_moves[1][plyv], m),
      counter |-> /\ IsSome(prev) /\ Unwrap(prev) \in DOMAIN counter_moves
                  /\ moves_are_equal(Some(counter_moves[Unwrap(prev)]), m),
      cont |-> IF IsSome(prev) /\ ckey \in DOMAIN continuation_history
               THEN Some(continuation_history[ckey]) ELSE None,
      hist |-> IF get_move_key(m) \in DOMAIN history
               THEN Some(history[get_move_key(m)]) ELSE None]
ScoreInGame(p, m, plyv, tt_best_move) == score_move(MoveInGame(p, m, plyv, tt_best_move))

\* A stable sort, best score first.
RECURSIVE InsertByScore(_, _, _, _, _)
InsertByScore(p, m, sorted, plyv, ttm) ==
  IF sorted = << >> THEN << m >>
  ELSE IF ScoreInGame(p, Head(sorted), plyv, ttm) >= ScoreInGame(p, m, plyv, ttm)
       THEN << Head(sorted) >> \o InsertByScore(p, m, Tail(sorted), plyv, ttm)
       ELSE << m >> \o sorted
RECURSIVE SortByScore(_, _, _, _, _)
SortByScore(p, ms, n, plyv, ttm) ==
  IF n = 0 THEN << >>
  ELSE InsertByScore(p, ms[n], SortByScore(p, ms, n - 1, plyv, ttm), plyv, ttm)
order_moves(p, ms, plyv, ttm) == SortByScore(p, ms, Len(ms), plyv, ttm)

(***************************************************************************)
(* History heuristic updates (engine.rs negamax) and the decay policy.     *)
(***************************************************************************)
HistoryGet(h, key) == IF key \in DOMAIN h THEN h[key] ELSE 0
HistoryPut(h, key, v) == [k \in (DOMAIN h) \cup {key} |-> IF k = key THEN v ELSE h[k]]

\* Mutant of HistoryBonus: the bonus is added without the clamp.
HistoryBonus_Unclamped(h, key, depth) ==
  HistoryPut(h, key, HistoryGet(h, key) + depth * depth * HISTORY_BONUS_DEPTH)

\* entry(key).or_insert(0); += depth * depth * HISTORY_BONUS_DEPTH; min(HISTORY_MAX)
HistoryBonus(h, key, depth) ==
  HistoryPut(h, key, Min(HistoryGet(h, key) + depth * depth * HISTORY_BONUS_DEPTH, HISTORY_MAX))

\* if let Some(score) = get_mut(key): -= bonus / 2; max(0)
HistoryPenalty(h, key, depth) ==
  IF key \in DOMAIN h
  THEN HistoryPut(h, key, Max(h[key] - ((depth * depth * HISTORY_BONUS_DEPTH) \div 2), 0))
  ELSE h

RECURSIVE HistoryPenalise(_, _, _, _)
HistoryPenalise(h, quiets, move_key, depth) ==
  IF quiets = << >> THEN h
  ELSE LET prev_key == get_move_key(Head(quiets))
           h1 == IF prev_key # move_key THEN HistoryPenalty(h, prev_key, depth) ELSE h
       IN HistoryPenalise(h1, Tail(quiets), move_key, depth)

\* decayHistoryScores: a multiplicative policy with factor f[1]/f[2] in [0, 1];
\* the value read back is truncated to an integer.
DecayValue(v, f) == (v * f[1]) \div f[2]
HistoryDecay(h, f) == [k \in DOMAIN h |-> DecayValue(h[k], f)]

\* continuation history: entry(key).or_insert(0); += depth * depth; min(HISTORY_MAX)
ContinuationBonus(ch, key, depth) ==
  [k \in (DOMAIN ch) \cup {key} |->
     IF k = key
     THEN Min((IF key \in DOMAIN ch THEN ch[key] ELSE 0) + depth * depth, HISTORY_MAX)
     ELSE ch[k]]

\* Observation: the step that wrote the entry of a hash.
OriginPut(o, hash, how) == [h \in (DOMAIN o) \cup {hash} |-> IF h = hash THEN how ELSE o[h]]

CounterPut(cm, key, m) == [k \in (DOMAIN cm) \cup {key} |-> IF k = key THEN m ELSE cm[k]]

\* killer update at a quiet beta cutoff: slot 0 moves to slot 1, the move to slot 0.
KillerUpdate(km, plyv, m) ==
  [km EXCEPT ![1][plyv] = km[0][plyv], ![0][plyv] = Some(m)]

\* Mutant of PvCopy: the row of the next ply is not copied.
PvCopy_Omitted(pv, plyv, next_ply) == pv

\* PV update on an alpha improvement: the move, then the row of the next ply
\* up to its first empty slot.
RECURSIVE PvCopy(_, _, _)
PvCopy(pv, plyv, next_ply) ==
  IF next_ply >= MAX_PLY THEN pv
  ELSE IF IsSome(pv[plyv + 1][next_ply])
       THEN PvCopy([pv EXCEPT ![plyv][next_ply] = pv[plyv + 1][next_ply]], plyv, next_ply + 1)
       ELSE pv
PvUpdate(pv, plyv, m) ==
  LET pv1 == [pv EXCEPT ![plyv][plyv] = Some(m)]
  IN IF plyv + 1 < MAX_PLY THEN PvCopy(pv1, plyv, plyv + 1) ELSE pv1
PvLengthUpdate(pl, plyv) ==
  IF plyv + 1 < MAX_PLY THEN [pl EXCEPT ![plyv] = pl[plyv + 1]] ELSE pl

(***************************************************************************)
(* Frames.                                                                 *)
(***************************************************************************)
Frame(fn, depth, alpha, beta, null_move, epos, eply) ==
  [fn |-> fn, pc |-> "entry",
   depth |-> depth, alpha |-> alpha, beta |-> beta, null_move |-> null_move,
   pv_node |-> FALSE, is_root |-> FALSE, best_move |-> None,
   hash_flag |-> "LOWER_BOUND", is_in_check |-> FALSE, hash |-> 0,
   eval_score |-> 0, moves |-> << >>, i |-> 1, best_score |-> -INFINITY,
   skip_quiet |-> FALSE, moves_searched |-> 0, prev_quiet_moves |-> << >>,
   score |-> 0, cur |-> 0, is_quiet |-> FALSE, null_score |-> 0,
   \* observation only
   entryPos |-> epos, entryPly |-> eply, entryDepth |-> depth,
   entryAlpha |-> alpha, entryBeta |-> beta, mk |-> 0, unmk |-> 0, nulls |-> 0,
   calls |-> << >>, raised |-> 0, hit |-> "none"]

\* Observation: a call of negamax made for the move of a node, and the value
\* it returned once it has.
Search(kind, depth, alpha, beta) ==
  [kind |-> kind, depth |-> depth, alpha |-> alpha, beta |-> beta,
   returned |-> FALSE, value |-> 0]
Returned(calls, value) ==
  [calls EXCEPT ![Len(calls)].returned = TRUE, ![Len(calls)].value = value]

Top == stack[Len(stack)]
Running(fn, pc) == stack # << >> /\ Top.fn = fn /\ Top.pc = pc

\* The caller moves on to the frame f and calls callee.
Call(f, callee) ==
  /\ stack' = Append([stack EXCEPT ![Len(stack)] = f], callee)
  /\ UNCHANGED << ret, lastRet, stopMark >>

\* The running frame moves on to f without calling or returning.
Goto(f) ==
  /\ stack' = [stack EXCEPT ![Len(stack)] = f]
  /\ UNCHANGED << ret, lastRet, stopMark >>

\* The running frame, in its last state f, returns value.
Return(f, value, how) ==
  LET n == Len(stack)
      inflight == STOP' /\ (STOP => n <= stopMark)
  IN /\ stack' = IF n = 1 THEN << >>
                 ELSE [SubSeq(stack, 1, n - 1) EXCEPT
                         ![n - 1].mk = @ + f.mk, ![n - 1].unmk = @ + f.unmk,
                         ![n - 1].nulls = @ + f.nulls]
     /\ ret' = value
     /\ lastRet' = [fn |-> f.fn, value |-> value, how |-> how,
                    inflight |-> inflight, stopped |-> STOP',
                    entryPos |-> f.entryPos, exitPos |-> pos',
                    entryPly |-> f.entryPly, exitPly |-> ply',
                    entryDepth |-> f.entryDepth, entryAlpha |-> f.entryAlpha,
                    entryBeta |-> f.entryBeta, alpha |-> f.alpha, beta |-> f.beta,
                    mk |-> f.mk, unmk |-> f.unmk, nulls |-> f.nulls,
                    raised |-> f.raised, hit |-> f.hit]
     /\ stopMark' = IF STOP'
                    THEN (IF STOP THEN Min(stopMark, n - 1) ELSE n - 1)
                    ELSE 0

NoRet == [fn |-> "none", value |-> 0, how |-> "none", inflight |-> FALSE,
          stopped |-> FALSE,
          entryPos |-> << >>, exitPos |-> << >>, entryPly |-> 0, exitPly |-> 0,
          entryDepth |-> 0, entryAlpha |-> 0, entryBeta |-> 0,
          alpha |-> 0, beta |-> 0,
          mk |-> 0, unmk |-> 0, nulls |-> 0, raised |-> 0, hit |-> "none"]

\* Mutant of PlyLimitReached: the limit is one ply further.
PlyLimitReached_OnePlyLater(plyv) == plyv > MAX_PLY

\* Lines 335, 487 and 790: data.ply >= MAX_PLY.
PlyLimitReached(plyv) == plyv >= MAX_PLY

\* stop_search: true when STOP is set or the deadline has passed (exceeded).
stop_search(exceeded) == STOP \/ exceeded

\* Lines 404 and 795: data.nodes % 2047 == 0, the left operand of the && whose
\* right operand is the call of stop_search.
DeadlineDue(counted, period) == counted % period = 0

\* What a search never changes.
hashVars == << board, overflow_checks, hashed >>
\* The capacity of the table and what the steps on a node counter or on an
\* evaluation keep.
auxVars == << tt_size, polled, expiredAt, evaluated, penalised, scored,
             normalized >>
fixedVars == << game, decay, lastStore, lastProbe, steps, hashVars, auxVars >>
dataVars == << follow_pv, score_pv, data_best_move >>
heurVars == << killer_moves, history, counter_moves, continuation_history >>
pvVars == << pv_table, pv_length >>
ttVars == << tt, origin, current_age >>
drvVars == << dpc, iter_depth, best_move, result, adopted >>

(***************************************************************************)
(* The state after construction (the thread_local initialisers).           *)
(***************************************************************************)
EmptyMap == [k \in {} |-> 0]

NoStore == [valid |-> FALSE, hash |-> 0, depth |-> 0, flag |-> "EXACT", score |-> 0,
            best_move |-> None, ply |-> 0, wrote |-> FALSE]
NoProbe == [valid |-> FALSE, hash |-> 0, alpha |-> 0, beta |-> 0, depth |-> 0,
            ply |-> 0, res |-> ProbeScore(NO_ENTRY), entry |-> None]

\* What no node has been counted and no deadline has passed looks like.
NoPoll == [valid |-> FALSE, fn |-> "none", nodes |-> 0, reached |-> FALSE,
           called |-> FALSE, late |-> 0]

\* What no quiet beta cutoff applied to a history map looks like.
NoPenalty == [valid |-> FALSE, key |-> 0, depth |-> 0, tried |-> << >>,
              before |-> EmptyMap, after |-> EmptyMap]

InitEngineAt(start, counted) ==
  /\ pos = << >>
  /\ STOP = FALSE /\ TT_HITS = 0
  /\ nodes = counted /\ ply = 0 /\ follow_pv = TRUE /\ score_pv = FALSE
  /\ data_best_move = None
  /\ killer_moves = [s \in 0 .. 1 |-> [q \in Plies |-> None]]
  /\ history = EmptyMap /\ counter_moves = EmptyMap
  /\ continuation_history = EmptyMap
  /\ pv_table = [q \in Plies |-> [j \in Plies |-> None]]
  /\ pv_length = [q \in Plies |-> 0]
  /\ tt = EmptyMap /\ current_age = 0
  /\ stack = << >> /\ ret = 0
  /\ dpc = start /\ iter_depth = 0 /\ best_move = None /\ result = None
  /\ lastRet = NoRet /\ stopMark = 0 /\ adopted = None /\ entered = {}
  /\ lastStore = NoStore /\ lastProbe = NoProbe /\ steps = 0
  /\ origin = EmptyMap /\ polled = NoPoll /\ expiredAt = None
  /\ evaluated = << >> /\ penalised = NoPenalty /\ scored = None
  /\ normalized = None

InitEngine(start) == InitEngineAt(start, 0)

\* No board is hashed on its own.
NoBoard == [pieces |-> << >>, whosTurn |-> 1]
NoHashing == board = NoBoard /\ overflow_checks = FALSE /\ hashed = << >>

Init ==
  /\ game \in Games
  /\ decay \in DecayFactors
  /\ InitEngine("idle")
  /\ tt_size = TT_SIZE
  /\ NoHashing

\* The searches the caller asks for, one after the other, and the games it
\* searches more than once: one without a legal move at the root and one with
\* captures and replies.
MaxSearches == 2
RepeatLayerings ==
  { << >>,
    << << Quiet(50), Capture(100), Quiet(1) >>, << Quiet(10) >> >> }

(***************************************************************************)
(* find_best_move (engine.rs 92-321).                                      *)
(***************************************************************************)
\* Mutant of ResetPvTable: the table keeps what the last search left.
ResetPvTable_Kept(pv) == pv

\* Lines 137-145: every slot of the PV table is emptied.
ResetPvTable(pv) == [q \in Plies |-> [j \in Plies |-> None]]

\* Lines 93-159: the reset at the start of a search; the caller searches the
\* position again after a search has returned.
FindBestMoveStart ==
  /\ dpc = "idle"
     \/ (dpc = "done" /\ current_age < MaxSearches /\ game.layers \in RepeatLayerings)
  /\ STOP' = FALSE /\ TT_HITS' = 0
  /\ nodes' = 0 /\ ply' = 0 /\ data_best_move' = None
  /\ follow_pv' = TRUE /\ score_pv' = FALSE
  /\ killer_moves' = [s \in 0 .. 1 |-> [q \in Plies |-> None]]
  /\ history' = EmptyMap /\ counter_moves' = EmptyMap
  /\ continuation_history' = EmptyMap
  /\ pv_table' = ResetPvTable(pv_table)
  /\ pv_length' = [q \in Plies |-> 0]
  /\ best_move' = None /\ iter_depth' = 1 /\ dpc' = "iter"
  /\ stopMark' = 0 /\ adopted' = None /\ entered' = {}
  /\ UNCHANGED << fixedVars, pos, ttVars, stack, ret, result, lastRet >>

\* Mutant of IterationsOver: one more iteration is run.
IterationsOver_OneMore(depth) == depth > MAX_PLY + 1

\* Line 162: for depth in 1..=MAX_PLY.
IterationsOver(depth) == depth > MAX_PLY

\* Lines 162-207: the head of one iteration, up to the call of negamax.
IterBegin ==
  /\ dpc = "iter"
  /\ \E exceeded \in BOOLEAN :
       LET over == IterationsOver(iter_depth)
           stop == ~over /\ stop_search(exceeded)
       IN /\ STOP' = (STOP \/ stop)
          /\ dpc' = IF over \/ stop THEN "finish" ELSE "wait"
          /\ pv_length' = IF over \/ stop THEN pv_length
                          ELSE [pv_length EXCEPT ![0] = 0]
          /\ follow_pv' = IF over \/ stop THEN follow_pv ELSE TRUE
          /\ score_pv' = IF over \/ stop THEN score_pv ELSE TRUE
          /\ history' = IF over \/ stop THEN history ELSE HistoryDecay(history, decay)
          /\ entered' = IF over \/ stop THEN entered ELSE {}
          /\ stack' = IF over \/ stop THEN stack
                      ELSE << Frame("negamax", iter_depth, -INFINITY, INFINITY,
                                    TRUE, pos, ply) >>
  /\ UNCHANGED << fixedVars, pos, TT_HITS, nodes, ply, data_best_move,
                  killer_moves, counter_moves, continuation_history, pv_table,
                  ttVars, ret, iter_depth, best_move, result, lastRet,
                  stopMark, adopted >>

\* Mutant of AdoptBestMove: a broken-off iteration's PV[0][0] is adopted too.
AdoptBestMove_EvenIfBroken(broken, pv_first, previous) ==
  IF IsSome(pv_first) THEN pv_first ELSE previous

\* Lines 210-231: the driver's best move after an iteration: PV[0][0] when the
\* iteration was not broken off and recorded one, the previous best otherwise.
AdoptBestMove(broken, pv_first, previous) ==
  IF ~broken /\ IsSome(pv_first) THEN pv_first ELSE previous

\* Mutant of ReturnedMove: without the fallback to the first legal move.
ReturnedMove_NoFallback(best, legal) == best

\* Lines 307-320: the move returned: the best move, else the first legal move,
\* else the null sentinel (None).
ReturnedMove(best, legal) ==
  IF IsSome(best) THEN best
  ELSE IF Len(legal) > 0 THEN Some(legal[1])
  ELSE None

\* Lines 207-302: after negamax returned to the driver.
IterEnd ==
  /\ dpc = "wait" /\ stack = << >>
  /\ LET score == ret
         broken == score = TIME_UP \/ STOP
     IN /\ STOP' = (STOP \/ score = TIME_UP)
        /\ dpc' = IF broken THEN "finish" ELSE "iter"
        /\ best_move' = AdoptBestMove(broken, pv_table[0][0], best_move)
        /\ data_best_move' = AdoptBestMove(broken, pv_table[0][0], data_best_move)
        /\ adopted' = IF broken THEN adopted ELSE pv_table[0][0]
        /\ iter_depth' = IF broken THEN iter_depth ELSE iter_depth + 1
  /\ UNCHANGED << fixedVars, pos, TT_HITS, nodes, ply, follow_pv, score_pv,
                  heurVars, pvVars, ttVars, stack, ret, result, lastRet,
                  stopMark, entered >>

\* Lines 304-320: the age of the table and the move returned.
FindBestMoveReturn ==
  /\ dpc = "finish"
  /\ current_age' = increment_age(current_age)
  /\ result' = ReturnedMove(best_move, LegalMoves(pos))
  /\ dpc' = "done"
  /\ UNCHANGED << fixedVars, pos, STOP, TT_HITS, nodes, ply, dataVars, heurVars,
                  pvVars, tt, origin, stack, ret, iter_depth, best_move, lastRet,
                  stopMark, adopted, entered >>

(***************************************************************************)
(* negamax (engine.rs 324-774).                                            *)
(***************************************************************************)
\* Lines 325-406: entry, ply limit, mate-distance pruning, horizon, check
\* extension, transposition-table probe and deadline test.
NmEntry ==
  /\ Running("negamax", "entry")
  /\ \E exceeded \in BOOLEAN :
       LET f == Top
           pv_node == (f.beta - f.alpha) > 1
           is_root == ply = 0
           a1 == IF ~is_root /\ f.alpha < -MATE_VALUE THEN -MATE_VALUE ELSE f.alpha
           b1 == IF ~is_root /\ f.beta > MATE_VALUE - 1 THEN MATE_VALUE - 1 ELSE f.beta
           chk == InCheck(pos)
           d1 == IF chk THEN f.depth + 1 ELSE f.depth
           h == generate_hash(pos)
           probed == ~is_root /\ ~pv_node
           pr == IF probed THEN TTProbe(tt, h, a1, b1, d1, ply)
                 ELSE ProbeMove(None)
           stage == IF PlyLimitReached(ply) THEN "ply_limit"
                    ELSE IF ~is_root /\ a1 >= b1 THEN "mdp"
                    ELSE IF f.depth <= 0 THEN "leaf"
                    ELSE IF probed /\ ~pr.is_move /\ pr.score # NO_ENTRY THEN "tt_hit"
                    ELSE IF DeadlineDue(nodes + 1, NODE_CHECK_PERIOD) /\ stop_search(exceeded)
                         THEN "time_up"
                    ELSE "go"
           f1 == [f EXCEPT !.pv_node = pv_node, !.is_root = is_root,
                           !.alpha = a1, !.beta = b1]
           f2 == [f1 EXCEPT !.is_in_check = chk, !.depth = d1, !.hash = h,
                            !.best_move = IF probed /\ pr.is_move THEN pr.move ELSE None,
                            !.hit = IF stage = "tt_hit" THEN origin[h] ELSE "none",
                            !.pc = "prune"]
       IN /\ nodes' = nodes + 1
          /\ STOP' = (STOP \/ stage = "time_up")
          /\ pv_length' = IF stage = "ply_limit" THEN pv_length
                          ELSE [pv_length EXCEPT ![ply] = ply]
          /\ entered' = IF stage = "ply_limit" THEN entered ELSE entered \cup {ply}
          /\ TT_HITS' = IF stage = "tt_hit" THEN TT_HITS + 1 ELSE TT_HITS
          /\ UNCHANGED << fixedVars, pos, ply, dataVars, heurVars, pv_table,
                          ttVars, drvVars >>
          /\ CASE stage = "ply_limit" -> Return(f, evaluate_position(pos), "ply_limit")
               [] stage = "mdp" -> Return(f1, a1, "mdp")
               [] stage = "leaf" ->
                    Call([f1 EXCEPT !.pc = "ret_qs"],
                         Frame("quiescence", 0, a1, b1, FALSE, pos, ply))
               [] stage = "tt_hit" -> Return(f2, pr.score, "tt_hit")
               [] stage = "time_up" -> Return(f2, TIME_UP, "time_up")
               [] OTHER -> Goto(f2)

\* Line 362: return quiescence_search(...).
NmReturnQs ==
  /\ Running("negamax", "ret_qs")
  /\ UNCHANGED << fixedVars, pos, STOP, TT_HITS, nodes, ply, dataVars, heurVars,
                  pvVars, ttVars, drvVars, entered >>
  /\ Return(Top, ret, IF ret = TIME_UP THEN "time_up" ELSE "quiescence")

\* What a step of negamax or quiescence_search leaves alone unless it says otherwise.
ctlVars == << fixedVars, TT_HITS, dataVars, drvVars, current_age, entered >>
Qs(alpha, beta, p, plyv) == Frame("quiescence", 0, alpha, beta, FALSE, p, plyv)

\* Lines 409-430: static evaluation, reverse futility pruning, futility pruning.
NmPrune ==
  /\ Running("negamax", "prune")
  /\ UNCHANGED << ctlVars, pos, STOP, nodes, ply, heurVars, pvVars, tt, origin >>
  /\ LET f == Top
         e == evaluate_position(pos)
         np == ~f.is_in_check /\ ~f.pv_node
         rfp == np /\ f.depth < 3 /\ Abs(f.beta) < MATE_SCORE
                   /\ e - 120 * f.depth >= f.beta
         fut == np /\ f.depth < 3 /\ Abs(f.alpha) < MATE_SCORE
                   /\ e + 120 * f.depth <= f.alpha
         f1 == [f EXCEPT !.eval_score = e]
     IN IF rfp THEN Return(f1, Min(e, f.beta), "rfp")
        ELSE IF fut
        THEN Call([f1 EXCEPT !.pc = "after_futility"], Qs(f.alpha, f.beta, pos, ply))
        ELSE Goto([f1 EXCEPT !.pc = IF np THEN "null" ELSE "standpat"])

\* Lines 425-429: the score of the quiescence search of futility pruning.
NmAfterFutility ==
  /\ Running("negamax", "after_futility")
  /\ UNCHANGED << ctlVars, pos, STOP, nodes, ply, heurVars, pvVars, tt, origin >>
  /\ LET f == Top
         q_score == ret
     IN IF q_score <= f.alpha THEN Return(f, q_score, "futility")
        ELSE Goto([f EXCEPT !.pc = "null"])

\* Mutant of NullMoveSearch: the call after the null move may try one again.
NullMoveSearch_NullAllowed(depth, beta, p, plyv) ==
  Frame("negamax", depth, -beta, -beta + 1, TRUE, p, plyv)

\* Line 446: the call of negamax on the position after the null move.
NullMoveSearch(depth, beta, p, plyv) ==
  Frame("negamax", depth, -beta, -beta + 1, FALSE, p, plyv)

\* Lines 433-446: the null move is made and searched with a null window.
NmNull ==
  /\ Running("negamax", "null")
  /\ LET f == Top
         has_major_or_minor_pieces == TRUE
         try == f.null_move /\ f.depth >= 3 /\ has_major_or_minor_pieces
         r == IF f.depth > 6 THEN NMP_R ELSE 2
     IN /\ ply' = IF try THEN ply + 1 ELSE ply
        /\ pos' = IF try THEN MakeNullMove(pos) ELSE pos
        /\ UNCHANGED << ctlVars, STOP, nodes, heurVars, pvVars, tt, origin >>
        /\ IF try
           THEN Call([f EXCEPT !.pc = "after_null", !.mk = @ + 1, !.nulls = @ + 1],
                     NullMoveSearch(f.depth - 1 - r, f.beta, pos', ply'))
           ELSE Goto([f EXCEPT !.pc = "razor"])

\* Lines 446-467: the null move is undone; cutoff or verification search.
NmAfterNull ==
  /\ Running("negamax", "after_null")
  /\ LET f == [Top EXCEPT !.unmk = @ + 1, !.null_score = -ret]
     IN /\ pos' = RewindMove(pos)
        /\ ply' = ply - 1
        /\ UNCHANGED << ctlVars, STOP, nodes, heurVars, pvVars, tt, origin >>
        /\ IF STOP THEN Return(f, TIME_UP, "time_up")
           ELSE IF f.null_score >= f.beta
           THEN IF f.depth > 6 /\ f.null_score >= MATE_SCORE
                THEN Call([f EXCEPT !.pc = "after_verif"],
                          Frame("negamax", f.depth - 4, f.alpha, f.beta, FALSE,
                                pos', ply'))
                ELSE Return(f, f.beta, "null_cutoff")
           ELSE Goto([f EXCEPT !.pc = "razor"])

\* Lines 460-463: the score of the verification search.
NmAfterVerif ==
  /\ Running("negamax", "after_verif")
  /\ UNCHANGED << ctlVars, pos, STOP, nodes, ply, heurVars, pvVars, tt, origin >>
  /\ LET f == Top
         verif_score == ret
     IN IF verif_score >= f.beta THEN Return(f, f.beta, "verification")
        ELSE Goto([f EXCEPT !.pc = "razor"])

\* Lines 472-474: razoring calls the quiescence search at depth 1.
NmRazor ==
  /\ Running("negamax", "razor")
  /\ UNCHANGED << ctlVars, pos, STOP, nodes, ply, heurVars, pvVars, tt, origin >>
  /\ LET f == Top
         razor_score == f.eval_score + 100
     IN IF f.depth = 1 /\ razor_score < f.beta
        THEN Call([f EXCEPT !.pc = "after_razor"], Qs(f.alpha, f.beta, pos, ply))
        ELSE Goto([f EXCEPT !.pc = "standpat"])

\* Lines 474-478: the score of the quiescence search of razoring.
NmAfterRazor ==
  /\ Running("negamax", "after_razor")
  /\ UNCHANGED << ctlVars, pos, STOP, nodes, ply, heurVars, pvVars, tt, origin >>
  /\ LET f == Top
         new_score == ret
     IN IF new_score < f.beta
        THEN Return(f, Max(new_score, f.eval_score + 100), "razoring")
        ELSE Goto([f EXCEPT !.pc = "standpat"])

\* Mutant of MatedScore: the mate score without the distance from the root.
MatedScore_NoPly(plyv) == -MATE_VALUE

\* Line 498: the score of a node whose side to move is checkmated.
MatedScore(plyv) == -MATE_VALUE + plyv

\* Mutant of NoMovesScore: the check is not looked at.
NoMovesScore_AlwaysMate(in_check, plyv) == MatedScore(plyv)

\* Lines 495-504: the score of a node without legal moves: mate or stalemate.
NoMovesScore(in_check, plyv) == IF in_check THEN MatedScore(plyv) ELSE 0

\* Lines 481-513: stand-pat, move generation, mate and stalemate, ordering.
NmStandPat ==
  /\ Running("negamax", "standpat")
  /\ UNCHANGED << ctlVars, pos, STOP, nodes, ply, heurVars, pvVars, tt, origin >>
  /\ LET f == Top
         e == f.eval_score
         a1 == IF e > f.alpha THEN e ELSE f.alpha
         legal == LegalMoves(pos)
     IN IF ~f.is_in_check /\ e >= f.beta THEN Return(f, f.beta, "stand_pat")
        ELSE IF PlyLimitReached(ply) THEN Return(f, e, "ply_limit")
        ELSE IF Len(legal) = 0
        THEN Return(f, NoMovesScore(f.is_in_check, ply),
                    IF f.is_in_check THEN "checkmate" ELSE "stalemate")
        ELSE Goto([f EXCEPT !.alpha = a1, !.pc = "loop", !.i = 1,
                            !.moves = order_moves(pos, legal, ply, f.best_move),
                            !.best_score = -INFINITY, !.skip_quiet = FALSE,
                            !.moves_searched = 0, !.prev_quiet_moves = << >>])

\* (moves_searched as f32).ln().floor() as i32, for the counts a node can reach.
LnFloor(n) == IF n < 3 THEN 0 ELSE IF n < 8 THEN 1 ELSE IF n < 21 THEN 2 ELSE 3

\* Lines 535-567: whether the move is one of the two killers of the ply.  The
\* start and end coordinates are compared as as_string() returns them, so
\* that coordinates that are not strings compare equal (None = None).
is_killer(km, plyv, m) ==
  /\ plyv < MAX_PLY
  /\ \E slot \in { 0, 1 } :
       /\ IsSome(km[slot][plyv])
       /\ coords_as_string(Unwrap(km[slot][plyv])) = coords_as_string(m)

\* Mutant of Reduction: the number of moves searched before is not looked at.
Reduction_FromSecondMove(f, m, is_quiet) ==
  LET do_lmr == f.depth >= LMR_MIN_DEPTH
                /\ ~f.is_in_check /\ is_quiet /\ ~is_promotion(pos, m)
  IN IF do_lmr
     THEN Min(LMR_REDUCTION + (LnFloor(f.moves_searched) \div 2), f.depth - 1)
     ELSE 0

\* Lines 595-613: the late-move reduction of a move that is not the first.
Reduction(f, m, is_quiet) ==
  LET do_lmr == f.moves_searched >= LMR_MIN_MOVES /\ f.depth >= LMR_MIN_DEPTH
                /\ ~f.is_in_check /\ is_quiet /\ ~is_promotion(pos, m)
  IN IF do_lmr
     THEN Min(LMR_REDUCTION + (LnFloor(f.moves_searched) \div 2), f.depth - 1)
     ELSE 0

\* Mutant of LateMovePruned: captures are pruned as well.
LateMovePruned_CapturesToo(f, is_quiet, killer) ==
  /\ ~f.is_root /\ f.best_score > -INFINITY
  /\ f.depth < 8 /\ ~killer
  /\ f.alpha + 97 * f.depth <= f.beta
  /\ Abs(f.alpha) < INFINITY - 100
  /\ f.moves_searched > 4 + f.depth * 2

\* Lines 569-578: late-move pruning.
LateMovePruned(f, is_quiet, killer) ==
  /\ ~f.is_root /\ f.best_score > -INFINITY
  /\ f.depth < 8 /\ is_quiet /\ ~killer
  /\ f.alpha + 97 * f.depth <= f.beta
  /\ Abs(f.alpha) < INFINITY - 100
  /\ f.moves_searched > 4 + f.depth * 2

\* Lines 516-631: one pass of the move loop up to the first search of the move.
NmLoop ==
  /\ Running("negamax", "loop")
  /\ Top.i <= Len(Top.moves)
  /\ LET f == Top
         m == f.moves[f.i]
         is_quiet == ~is_capture(pos, m)
         skipped == is_quiet /\ f.skip_quiet
         lmp == ~skipped /\ LateMovePruned(f, is_quiet, is_killer(killer_moves, ply, m))
         made == ~skipped /\ ~lmp
         r == Reduction(f, m, is_quiet)
         f0 == [f EXCEPT !.cur = m, !.is_quiet = is_quiet, !.mk = @ + 1,
                         !.prev_quiet_moves = IF is_quiet THEN Append(@, m) ELSE @]
         first == Search("first", f.depth - 1, -f.beta, -f.alpha)
         reduced == Search("reduced", f.depth - 1 - r, -f.alpha - 1, -f.alpha)
         full == Search("full", f.depth - 1, -f.beta, -f.alpha)
         f1 == [f0 EXCEPT !.calls =
                  IF f.moves_searched = 0 THEN << first >>
                  ELSE IF r > 0 THEN << reduced >>
                  ELSE IF f.alpha + 1 < f.beta /\ f.pv_node THEN << full >>
                  ELSE << >>]
     IN /\ pos' = IF made THEN MakeMove(pos, m) ELSE pos
        /\ ply' = IF made THEN ply + 1 ELSE ply
        /\ UNCHANGED << ctlVars, STOP, nodes, heurVars, pvVars, tt, origin >>
        /\ IF skipped THEN Goto([f EXCEPT !.i = @ + 1])
           ELSE IF lmp THEN Goto([f EXCEPT !.i = @ + 1, !.skip_quiet = TRUE])
           ELSE IF f.moves_searched = 0
           THEN Call([f1 EXCEPT !.pc = "after_full"],
                     Frame("negamax", f.depth - 1, -f.beta, -f.alpha, TRUE, pos', ply'))
           ELSE IF r > 0
           THEN Call([f1 EXCEPT !.pc = "after_reduced"],
                     Frame("negamax", f.depth - 1 - r, -f.alpha - 1, -f.alpha, TRUE,
                           pos', ply'))
           ELSE IF f.alpha + 1 < f.beta /\ f.pv_node
           THEN Call([f1 EXCEPT !.pc = "after_full", !.score = f.alpha + 1],
                     Frame("negamax", f.depth - 1, -f.beta, -f.alpha, TRUE, pos', ply'))
           ELSE Goto([f1 EXCEPT !.pc = "post", !.score = f.alpha + 1])

\* Lines 617-626: after the reduced search, the null-window search at full depth.
NmAfterReduced ==
  /\ Running("negamax", "after_reduced")
  /\ UNCHANGED << ctlVars, pos, STOP, nodes, ply, heurVars, pvVars, tt, origin >>
  /\ LET f == [Top EXCEPT !.score = -ret, !.calls = Returned(@, ret)]
     IN IF f.score > f.alpha
        THEN Call([f EXCEPT !.pc = "after_research",
                            !.calls = Append(@, Search("null_window", f.depth - 1,
                                                       -f.alpha - 1, -f.alpha))],
                  Frame("negamax", f.depth - 1, -f.alpha - 1, -f.alpha, TRUE, pos, ply))
        ELSE Goto([f EXCEPT !.pc = "post"])

\* Lines 625-631: after the null-window search, the full-window search of a PV node.
NmAfterResearch ==
  /\ Running("negamax", "after_research")
  /\ UNCHANGED << ctlVars, pos, STOP, nodes, ply, heurVars, pvVars, tt, origin >>
  /\ LET f == [Top EXCEPT !.score = -ret, !.calls = Returned(@, ret)]
     IN IF f.score > f.alpha /\ f.score < f.beta /\ f.pv_node
        THEN Call([f EXCEPT !.pc = "after_full",
                            !.calls = Append(@, Search("full", f.depth - 1,
                                                       -f.beta, -f.alpha))],
                  Frame("negamax", f.depth - 1, -f.beta, -f.alpha, TRUE, pos, ply))
        ELSE Goto([f EXCEPT !.pc = "post"])

\* Lines 591 and 630: the score of a full-window search.
NmAfterFull ==
  /\ Running("negamax", "after_full")
  /\ UNCHANGED << ctlVars, pos, STOP, nodes, ply, heurVars, pvVars, tt, origin >>
  /\ Goto([Top EXCEPT !.score = -ret, !.calls = Returned(@, ret), !.pc = "post"])

\* Mutant of Improved: the stop flag is not looked at.
Improved_IgnoringStop(f, score) == score > f.alpha

\* Lines 638-649: the score of the move is used when the stop flag is not set
\* after the rewind, and it improves the node when it is above alpha.
Improved(f, score) == ~STOP /\ score > f.alpha

\* Lines 635-766: the move is undone and its score is used.
NmPost ==
  /\ Running("negamax", "post")
  /\ LET f == Top
         p == ply - 1
         m == f.cur
         score == f.score
         move_key == get_move_key(m)
         improved == Improved(f, score)
         cutoff == improved /\ score >= f.beta
         prev == PrevMoveKey(p)
         h1 == IF improved /\ f.is_quiet
               THEN HistoryBonus(history, move_key, f.depth) ELSE history
         h2 == IF cutoff /\ f.is_quiet
               THEN HistoryPenalise(HistoryBonus(h1, move_key, f.depth),
                                    f.prev_quiet_moves, move_key, f.depth)
               ELSE h1
         writes == cutoff /\ StoreWrites(tt, tt_size, current_age, f.hash, f.depth,
                                          "UPPER_BOUND")
         f1 == [f EXCEPT !.unmk = @ + 1, !.calls = << >>,
                         !.raised = IF improved THEN @ + 1 ELSE @,
                         !.moves_searched = IF STOP THEN @ ELSE @ + 1,
                         !.best_score = IF ~STOP /\ score > @ THEN score ELSE @,
                         !.hash_flag = IF improved THEN "EXACT" ELSE @,
                         !.best_move = IF improved THEN Some(m) ELSE @,
                         !.alpha = IF improved THEN score ELSE @]
     IN /\ pos' = RewindMove(pos)
        /\ ply' = p
        /\ history' = h2
        /\ counter_moves' = IF improved /\ f.is_quiet /\ IsSome(prev)
                            THEN CounterPut(counter_moves, Unwrap(prev), m)
                            ELSE counter_moves
        /\ continuation_history' =
             IF improved /\ f.is_quiet /\ IsSome(prev)
             THEN ContinuationBonus(continuation_history,
                                    ContinuationKey(Unwrap(prev), move_key), f.depth)
             ELSE continuation_history
        /\ pv_table' = IF improved THEN PvUpdate(pv_table, p, m) ELSE pv_table
        /\ pv_length' = IF improved THEN PvLengthUpdate(pv_length, p) ELSE pv_length
        /\ tt' = IF cutoff
                 THEN TTStore(tt, tt_size, current_age, f.hash, f.depth, "UPPER_BOUND",
                              f.beta, f1.best_move, p)
                 ELSE tt
        /\ origin' = IF writes THEN OriginPut(origin, f.hash, "beta_cutoff") ELSE origin
        /\ killer_moves' = IF cutoff /\ f.is_quiet
                           THEN KillerUpdate(killer_moves, p, m) ELSE killer_moves
        /\ UNCHANGED << ctlVars, STOP, nodes >>
        /\ IF STOP THEN Return(f1, TIME_UP, "time_up")
           ELSE IF cutoff THEN Return(f1, f.beta, "beta_cutoff")
           ELSE Goto([f1 EXCEPT !.pc = "loop", !.i = @ + 1])

\* Lines 770-773: the loop is over; the node is stored and alpha returned.
NmLoopDone ==
  /\ Running("negamax", "loop")
  /\ Top.i > Len(Top.moves)
  /\ LET f == Top
     IN /\ tt' = TTStore(tt, tt_size, current_age, f.hash, f.depth, f.hash_flag,
                         f.alpha, f.best_move, ply)
        /\ origin' = IF StoreWrites(tt, tt_size, current_age, f.hash, f.depth,
                                    f.hash_flag)
                      THEN OriginPut(origin, f.hash,
                                     IF f.raised > 0 THEN "alpha_raised" ELSE "no_raise")
                      ELSE origin
        /\ UNCHANGED << ctlVars, pos, STOP, nodes, ply, heurVars, pvVars >>
        /\ Return(f, f.alpha, "alpha")

(***************************************************************************)
(* quiescence_search (engine.rs 777-859).                                  *)
(***************************************************************************)
\* Lines 778-819: stand-pat, ply limit, deadline test, captures and their order.
QEntry ==
  /\ Running("quiescence", "entry")
  /\ \E exceeded \in BOOLEAN :
       LET f == Top
           e == evaluate_position(pos)
           a1 == IF e > f.alpha THEN e ELSE f.alpha
           captures == FilterCaptures(pos, LegalMoves(pos))
           stage == IF e >= f.beta THEN "stand_pat"
                    ELSE IF PlyLimitReached(ply) THEN "ply_limit"
                    ELSE IF DeadlineDue(nodes + 1, NODE_CHECK_PERIOD) /\ stop_search(exceeded)
                         THEN "time_up"
                    ELSE IF Len(captures) = 0 THEN "no_captures"
                    ELSE "go"
           f1 == [f EXCEPT !.eval_score = e, !.alpha = a1]
       IN /\ nodes' = nodes + 1
          /\ STOP' = (STOP \/ stage = "time_up")
          /\ UNCHANGED << ctlVars, pos, ply, heurVars, pvVars, tt, origin >>
          /\ CASE stage = "stand_pat" -> Return(f, f.beta, "stand_pat")
               [] stage = "ply_limit" -> Return(f1, e, "ply_limit")
               [] stage = "time_up" -> Return(f1, TIME_UP, "time_up")
               [] stage = "no_captures" -> Return(f1, e, "no_captures")
               [] OTHER -> Goto([f1 EXCEPT !.pc = "loop", !.i = 1,
                                           !.moves = order_moves(pos, captures, ply, None)])

\* Lines 822-840: the next capture is made and searched.
QLoop ==
  /\ Running("quiescence", "loop")
  /\ Top.i <= Len(Top.moves)
  /\ LET f == Top
         m == f.moves[f.i]
     IN /\ pos' = MakeMove(pos, m)
        /\ ply' = ply + 1
        /\ UNCHANGED << ctlVars, STOP, nodes, heurVars, pvVars, tt, origin >>
        /\ Call([f EXCEPT !.pc = "after", !.cur = m, !.mk = @ + 1],
                Qs(-f.beta, -f.alpha, pos', ply'))

\* Lines 840-856: the capture is undone and its score is used.
QAfter ==
  /\ Running("quiescence", "after")
  /\ LET f == [Top EXCEPT !.unmk = @ + 1, !.score = -ret]
     IN /\ ply' = ply - 1
        /\ pos' = RewindMove(pos)
        /\ UNCHANGED << ctlVars, STOP, nodes, heurVars, pvVars, tt, origin >>
        /\ IF STOP THEN Return(f, TIME_UP, "time_up")
           ELSE IF f.score > f.alpha /\ f.score >= f.beta
           THEN Return([f EXCEPT !.alpha = f.score], f.beta, "beta_cutoff")
           ELSE Goto([f EXCEPT !.alpha = IF f.score > @ THEN f.score ELSE @,
                               !.pc = "loop", !.i = @ + 1])

\* Line 858: the loop is over; alpha is returned.
QLoopDone ==
  /\ Running("quiescence", "loop")
  /\ Top.i > Len(Top.moves)
  /\ UNCHANGED << ctlVars, pos, STOP, nodes, ply, heurVars, pvVars, tt, origin >>
  /\ Return(Top, Top.alpha, "alpha")

Next ==
  \/ FindBestMoveStart
  \/ IterBegin
  \/ IterEnd
  \/ FindBestMoveReturn
  \/ NmEntry
  \/ NmReturnQs
  \/ NmPrune
  \/ NmAfterFutility
  \/ NmNull
  \/ NmAfterNull
  \/ NmAfterVerif
  \/ NmRazor
  \/ NmAfterRazor
  \/ NmStandPat
  \/ NmLoop
  \/ NmAfterReduced
  \/ NmAfterResearch
  \/ NmAfterFull
  \/ NmPost
  \/ NmLoopDone
  \/ QEntry
  \/ QLoop
  \/ QAfter
  \/ QLoopDone

Spec == Init /\ [][Next]_vars

(***************************************************************************)
(* The transposition table on its own: stores, probes and age increments   *)
(* applied to the table a search starts with, with inputs drawn from small *)
(* sets (tt.rs store, probe, increment_age).                               *)
(***************************************************************************)
MaxTTStores == 2
MaxAge == 1
MateDistance == 1
\* The position stored and another one that is only probed.
StoredHashes == { generate_hash(<< >>) }
TTHashes == StoredHashes \cup { generate_hash(<< 1 >>) }
TTDepths == { 1, 3 }
TTPlies == { 0, 2 }
TTMoves == { None, Some(1) }
\* An ordinary score, and the mate scores negamax returns MateDistance plies
\* below the storing ply.
TTScores(plyv) ==
  (IF plyv = 0 THEN { 30 } ELSE {})
  \cup { MATE_VALUE - (plyv + MateDistance), -MATE_VALUE + (plyv + MateDistance) }
TTWindows == { << -50, 20 >>, << 40, 50 >>, << MATE_VALUE - 10, MATE_VALUE - 2 >> }

\* The capacities of the tables stored into: one that the first entry fills
\* and one that stays short of full.
TableSizes == { TT_SIZE, TT_SIZE + 1 }

NoGame == [layers |-> << >>, checks |-> {}, base |-> 0, extra |-> NoExtra,
           blocked |-> {}, pawns_only |-> FALSE,
           string_coords |-> FALSE]

InitTT ==
  /\ game = NoGame
  /\ decay = << 1, 1 >>
  /\ InitEngine("table")
  /\ tt_size \in TableSizes
  /\ NoHashing

\* TranspositionTable::store applied to the table.
TTStoreStep ==
  /\ dpc = "table" /\ steps < MaxTTStores
  /\ \E hash \in StoredHashes, depth \in TTDepths, flag \in TTFlags,
        bm \in TTMoves, plyv \in TTPlies :
       \E score \in TTScores(plyv) :
         /\ tt' = TTStore(tt, tt_size, current_age, hash, depth, flag, score, bm, plyv)
         /\ lastStore' = [valid |-> TRUE, hash |-> hash, depth |-> depth,
                          flag |-> flag, score |-> score, best_move |-> bm,
                          ply |-> plyv,
                          wrote |-> StoreWrites(tt, tt_size, current_age, hash,
                                                depth, flag)]
  /\ lastProbe' = NoProbe
  /\ steps' = steps + 1
  /\ UNCHANGED << game, decay, auxVars, hashVars, pos, STOP, TT_HITS, nodes, ply, dataVars, heurVars,
                  pvVars, origin, current_age, stack, ret, drvVars, lastRet, stopMark,
                  entered >>

\* TranspositionTable::probe applied to the table.
TTProbeStep ==
  /\ dpc = "table"
  /\ \E hash \in TTHashes, w \in TTWindows, depth \in TTDepths, plyv \in TTPlies :
       lastProbe' = [valid |-> TRUE, hash |-> hash, alpha |-> w[1], beta |-> w[2],
                     depth |-> depth, ply |-> plyv,
                     res |-> TTProbe(tt, hash, w[1], w[2], depth, plyv),
                     entry |-> IF hash \in DOMAIN tt THEN Some(tt[hash]) ELSE None]
  /\ UNCHANGED << game, decay, auxVars, hashVars, pos, STOP, TT_HITS, nodes, ply, dataVars, heurVars,
                  pvVars, ttVars, stack, ret, drvVars, lastRet, stopMark,
                  entered, lastStore, steps >>

\* TranspositionTable::increment_age applied to the table.
TTAgeStep ==
  /\ dpc \in { "table", "hash" } /\ current_age < MaxAge
  /\ current_age' = increment_age(current_age)
  /\ lastStore' = NoStore /\ lastProbe' = NoProbe
  /\ UNCHANGED << game, decay, auxVars, hashVars, pos, STOP, TT_HITS, nodes, ply, dataVars, heurVars,
                  pvVars, tt, origin, stack, ret, drvVars, lastRet, stopMark,
                  entered, steps >>

NextTT ==
  \/ TTStoreStep
  \/ TTProbeStep
  \/ TTAgeStep

SpecTT == InitTT /\ [][NextTT]_vars

(***************************************************************************)
(* The history map on its own: the updates negamax applies to it and the   *)
(* decay between iterations, with depths up to the deepest a node can get. *)
(***************************************************************************)
MaxHistorySteps == 4
\* MAX_PLY of engine.rs (64) plus the check extension of one ply.
DeepestDepth == 65
HistoryDepths == { 1, 2, DeepestDepth }
HistoryKeys == { 1, 2 }
\* The quiet moves tried at a node before its cutoff, each named by its key.
\* get_move_key leaves the promotion out, so the promotions of one pawn move
\* to different pieces are moves with one key.
TriedQuiets == { << >>, << 1 >>, << 2 >>, << 1, 2 >>, << 1, 1 >> }
HistoryFactors == DecayFactors \cup { << 0, 1 >> }

InitHistory ==
  /\ game = NoGame
  /\ decay = << 1, 1 >>
  /\ InitEngine("history")
  /\ tt_size = TT_SIZE
  /\ NoHashing

\* Lines 658-667: the bonus of a quiet move that raised alpha.
HistoryAlphaStep ==
  /\ dpc = "history" /\ steps < MaxHistorySteps
  /\ \E key \in HistoryKeys, depth \in HistoryDepths :
       history' = HistoryBonus(history, key, depth)
  /\ steps' = steps + 1
  /\ UNCHANGED << game, decay, auxVars, hashVars, pos, STOP, TT_HITS, nodes, ply, dataVars,
                  killer_moves, counter_moves, continuation_history, pvVars,
                  ttVars, stack, ret, drvVars, lastRet, stopMark, entered,
                  lastStore, lastProbe >>

\* Lines 738-762: the bonus of a quiet move that cut off and the penalties of
\* the quiet moves tried before it.
HistoryCutoffStep ==
  /\ dpc = "history" /\ steps < MaxHistorySteps
  /\ \E key \in HistoryKeys, depth \in HistoryDepths, tried \in TriedQuiets :
       /\ history' = HistoryPenalise(HistoryBonus(history, key, depth), tried, key, depth)
       /\ penalised' = [valid |-> TRUE, key |-> key, depth |-> depth, tried |-> tried,
                        before |-> history, after |-> history']
  /\ steps' = steps + 1
  /\ UNCHANGED << game, decay, tt_size, polled, expiredAt, evaluated, scored, normalized, hashVars,
                  pos, STOP, TT_HITS, nodes, ply, dataVars, killer_moves, counter_moves, continuation_history, pvVars,
                  ttVars, stack, ret, drvVars, lastRet, stopMark, entered,
                  lastStore, lastProbe >>

\* Lines 179-204: the decay at the head of an iteration.
HistoryDecayStep ==
  /\ dpc = "history" /\ steps < MaxHistorySteps
  /\ \E f \in HistoryFactors : history' = HistoryDecay(history, f)
  /\ steps' = steps + 1
  /\ UNCHANGED << game, decay, auxVars, hashVars, pos, STOP, TT_HITS, nodes, ply, dataVars,
                  killer_moves, counter_moves, continuation_history, pvVars,
                  ttVars, stack, ret, drvVars, lastRet, stopMark, entered,
                  lastStore, lastProbe >>

NextHistory ==
  \/ HistoryAlphaStep
  \/ HistoryCutoffStep
  \/ HistoryDecayStep

SpecHistory == InitHistory /\ [][NextHistory]_vars

(***************************************************************************)
(* generate_hash on a board (tt.rs 97-168).  An i32 is kept as its 32 bits, *)
(* least significant first, wherever the code works on the bits or wraps.  *)
(***************************************************************************)
HASH_COORD_BOUND == 150
HASH_MODULO_BUCKETS == 8
GOLDEN_RATIO == -1640531527          \* 0x9E3779B9u32 as i32
PRIMES == << 3, 5, 7, 11, 13, 17, 19, 23, 29, 31, 37, 41, 43, 47, 53, 59 >>

WordBits == 32
MaxI32 == 2147483647
MinI32 == -MaxI32 - 1

\* The k low bits of n >= 0, and the number the first k bits of b stand for.
NatBits(n, k) == [i \in 1 .. k |-> (n \div 2 ^ (i - 1)) % 2]
RECURSIVE BitsNat(_, _)
BitsNat(b, k) == IF k = 0 THEN 0 ELSE BitsNat(b, k - 1) + b[k] * 2 ^ (k - 1)

\* The two's complement bits of an i32, and back.
ToBits(i) ==
  IF i >= 0 THEN NatBits(i, WordBits - 1) \o << 0 >>
  ELSE NatBits((i + MaxI32) + 1, WordBits - 1) \o << 1 >>
FromBits(b) ==
  IF b[WordBits] = 1 THEN (BitsNat(b, WordBits - 1) - MaxI32) - 1
  ELSE BitsNat(b, WordBits - 1)

\* ^, &, |, << and rotate_left on an i32.
XorW(a, b) == [i \in 1 .. WordBits |-> (a[i] + b[i]) % 2]
AndW(a, b) == [i \in 1 .. WordBits |-> a[i] * b[i]]
OrW(a, b) == [i \in 1 .. WordBits |-> IF a[i] + b[i] > 0 THEN 1 ELSE 0]
ShlW(a, k) == [i \in 1 .. WordBits |-> IF i <= k THEN 0 ELSE a[i - k]]
RotlW(a, k) ==
  [i \in 1 .. WordBits |-> a[((i - 1 + WordBits - (k % WordBits)) % WordBits) + 1]]

\* wrapping addition of two i32, done on their 16-bit halves
LowHalf(a) == BitsNat(a, 16)
HighHalf(a) == BitsNat([i \in 1 .. 16 |-> a[i + 16]], 16)
AddW(a, b) ==
  LET lo == LowHalf(a) + LowHalf(b)
      hi == HighHalf(a) + HighHalf(b) + (lo \div 65536)
  IN NatBits(lo % 65536, 16) \o NatBits(hi % 65536, 16)

\* n * c on i32 for a small n >= 0: the wrapped product, and whether the
\* product leaves the range of an i32.
RECURSIVE MulW(_, _)
MulW(n, c) == IF n = 0 THEN ToBits(0) ELSE AddW(MulW(n - 1, c), c)
RECURSIVE MulOverflows(_, _)
MulOverflows(n, c) ==
  IF n <= 1 THEN FALSE
  ELSE \/ MulOverflows(n - 1, c)
       \/ (c > 0 /\ (n - 1) * c > MaxI32 - c)
       \/ (c < 0 /\ (n - 1) * c < MinI32 - c)

\* normalize_coord_for_hash (tt.rs 40-54)
normalize_coord_for_hash(coord) ==
  LET abs_coord == Abs(coord)
  IN IF abs_coord <= HASH_COORD_BOUND THEN coord
     ELSE LET sign == IF coord > 0 THEN 1 ELSE -1
              delta == abs_coord - HASH_COORD_BOUND
              bucket == delta % HASH_MODULO_BUCKETS
          IN sign * (HASH_COORD_BOUND + bucket)

\* Lines 134-151: the hash of one piece (type, x, y).
piece_hash(piece) ==
  LET norm_x == normalize_coord_for_hash(piece.x)
      norm_y == normalize_coord_for_hash(piece.y)
      prime_idx == FromBits(AndW(ToBits(piece.type), ToBits(15)))
      prime == PRIMES[(prime_idx % Len(PRIMES)) + 1]
      mask == ToBits(65535)
      coord_hash == OrW(ShlW(AndW(ToBits(norm_x), mask), 16),
                        AndW(ToBits(norm_y), mask))
  IN XorW(ToBits(piece.type), RotlW(coord_hash, prime))

\* Mutant of HashCombine: the hash so far is rotated before the piece goes in.
HashCombine_Rotating(hash_value, ph) == XorW(RotlW(hash_value, 1), ph)

\* Line 154: hash_value ^= piece_hash
HashCombine(hash_value, ph) == XorW(hash_value, ph)

\* Lines 120-156: the loop over the pieces in the order they are enumerated.
RECURSIVE HashPieces(_, _)
HashPieces(pieces, n) ==
  IF n = 0 THEN ToBits(0)
  ELSE HashCombine(HashPieces(pieces, n - 1), piece_hash(pieces[n]))

\* Mutant of TurnTerm: the side to move does not go into the hash.
TurnTerm_Ignored(whos_turn) == ToBits(0)

\* Line 164: whos_turn * (0x9E3779B9u32 as i32), as the build that wraps
\* computes it.
TurnTerm(whos_turn) == MulW(whos_turn, ToBits(GOLDEN_RATIO))

\* TranspositionTable::generate_hash(&self, board): the i32 returned, or the
\* panic of a build that checks overflow when the product of line 164 leaves
\* the range.  self is the table and its age.
generate_hash_board(self, b, checks) ==
  LET hash_value == HashPieces(b.pieces, Len(b.pieces))
      overflow == MulOverflows(b.whosTurn, GOLDEN_RATIO)
  IN IF checks /\ overflow THEN [panic |-> TRUE, value |-> 0]
     ELSE [panic |-> FALSE,
           value |-> FromBits(XorW(hash_value, TurnTerm(b.whosTurn)))]

\* The boards hashed: piece maps with coordinates inside and outside the
\* bound, each in every order of enumeration, for either side to move.
MaxHashSteps == 2
Piece(t, x, y) == [type |-> t, x |-> x, y |-> y]
HashPieceMaps ==
  { { Piece(1, 0, 0), Piece(17, 3, -2) },
    { Piece(6, 151, 1), Piece(6, -160, 200), Piece(1, 1, 151) } }
Enumerations(S) ==
  { f \in [1 .. Cardinality(S) -> S] : \A i, j \in DOMAIN f : f[i] = f[j] => i = j }
HashBoards ==
  { [pieces |-> e, whosTurn |-> t] :
      e \in UNION { Enumerations(S) : S \in HashPieceMaps }, t \in { 1, 2 } }
PieceSet(pieces) == { pieces[i] : i \in DOMAIN pieces }

InitHash ==
  /\ game = NoGame
  /\ decay = << 1, 1 >>
  /\ InitEngine("hash")
  /\ tt_size = TT_SIZE
  /\ board \in HashBoards
  /\ overflow_checks \in BOOLEAN
  /\ hashed = << >>

\* generate_hash is called on the board; a panic ends the instance.
GenerateHashStep ==
  /\ dpc = "hash" /\ steps < MaxHashSteps
  /\ LET r == generate_hash_board([table |-> tt, current_age |-> current_age],
                                  board, overflow_checks)
         h == [pieces |-> PieceSet(board.pieces), first |-> board.pieces[1],
               whosTurn |-> board.whosTurn, age |-> current_age, stored |-> DOMAIN tt, result |-> r]
     IN /\ hashed' = << h >> \o (IF hashed = << >> THEN << >> ELSE << hashed[1] >>)
        /\ dpc' = IF r.panic THEN "trapped" ELSE dpc
  /\ steps' = steps + 1
  /\ UNCHANGED << game, decay, auxVars, board, overflow_checks, pos, STOP, TT_HITS, nodes,
                  ply, dataVars, heurVars, pvVars, ttVars, stack, ret, iter_depth,
                  best_move, result, adopted, lastRet, stopMark, entered,
                  lastStore, lastProbe >>

\* The pieces of the board come in another order: two neighbours change places.
ReorderStep ==
  /\ dpc = "hash"
  /\ \E i \in 1 .. (Len(board.pieces) - 1) :
       board' = [board EXCEPT !.pieces = [@ EXCEPT ![i] = board.pieces[i + 1],
                                                   ![i + 1] = board.pieces[i]]]
  /\ UNCHANGED << game, decay, auxVars, overflow_checks, hashed, pos, STOP, TT_HITS, nodes,
                  ply, dataVars, heurVars, pvVars, ttVars, stack, ret, drvVars,
                  lastRet, stopMark, entered, lastStore, lastProbe, steps >>

\* The other side is to move on the same pieces.
TurnStep ==
  /\ dpc \in { "hash", "eval" }
  /\ board' = [board EXCEPT !.whosTurn = 3 - @]
  /\ UNCHANGED << game, decay, auxVars, overflow_checks, hashed, pos, STOP, TT_HITS, nodes,
                  ply, dataVars, heurVars, pvVars, ttVars, stack, ret, drvVars,
                  lastRet, stopMark, entered, lastStore, lastProbe, steps >>

\* The position hashed last is stored in the table under its hash.
StoreHashedStep ==
  /\ dpc = "hash" /\ hashed # << >>
  /\ tt' = TTStore(tt, tt_size, current_age, hashed[1].result.value, 1, "EXACT",
                   0, None, 0)
  /\ tt' # tt
  /\ UNCHANGED << game, decay, auxVars, hashVars, pos, STOP, TT_HITS, nodes, ply, dataVars,
                  heurVars, pvVars, origin, current_age, stack, ret, drvVars, lastRet,
                  stopMark, entered, lastStore, lastProbe, steps >>

NextHash ==
  \/ GenerateHashStep
  \/ ReorderStep
  \/ TurnStep
  \/ StoreHashedStep
  \/ TTAgeStep

SpecHash == InitHash /\ [][NextHash]_vars

(***************************************************************************)
(* normalize_coord_for_hash on its own (tt.rs 36-54): the coordinates of   *)
(* the pieces hashed, within the bound and up to three rounds of buckets   *)
(* outside it.                                                             *)
(***************************************************************************)
MaxHashCoord == 175
HashCoords == (-MaxHashCoord) .. MaxHashCoord

InitCoord ==
  /\ game = NoGame
  /\ decay = << 1, 1 >>
  /\ InitEngine("coord")
  /\ tt_size = TT_SIZE
  /\ NoHashing

\* Lines 138-139: a coordinate of a piece is normalised.
NormalizeStep ==
  /\ dpc = "coord"
  /\ \E coord \in HashCoords :
       normalized' = Some([coord |-> coord, value |-> normalize_coord_for_hash(coord)])
  /\ UNCHANGED << game, decay, hashVars, tt_size, polled, expiredAt, evaluated,
                  penalised, scored, steps, pos, STOP, TT_HITS, nodes, ply,
                  dataVars, heurVars, pvVars, ttVars, stack, ret, drvVars,
                  lastRet, stopMark, entered, lastStore, lastProbe >>

NextCoord == NormalizeStep

SpecCoord == InitCoord /\ [][NextCoord]_vars

(***************************************************************************)
(* The node counter and the deadline test on their own, with the modulus   *)
(* of the code: the nodes of a search under way are counted one by one     *)
(* (engine.rs 332 and 403-406 in negamax, 778 and 794-797 in               *)
(* quiescence_search) while the clock runs (stop_search, 66-89).           *)
(***************************************************************************)
NODE_CHECK_MODULUS == 2047
MaxBudgetSteps == 4
\* The nodes counted when the steps begin: none, and counts just below the
\* first and the second multiples of the modulus and of the power of two
\* above it.
NodeCounts == { 0 } \cup (2044 .. 2048) \cup (4092 .. 4096)

InitBudget ==
  /\ game = NoGame
  /\ decay = << 1, 1 >>
  /\ \E counted \in NodeCounts : InitEngineAt("budget", counted)
  /\ tt_size = TT_SIZE
  /\ NoHashing

\* One node of negamax or quiescence_search: the counter is incremented and,
\* if the node gets as far as the deadline test (no earlier return), the
\* test is made; a tripped test sets STOP and the search unwinds, and the
\* node goes on to its evaluation and its moves otherwise (late counts the
\* nodes that did so after the deadline had passed).
CountNodeStep ==
  /\ dpc = "budget" /\ ~STOP /\ steps < MaxBudgetSteps
  /\ \E fn \in { "negamax", "quiescence" }, reaches \in BOOLEAN :
       LET counted == nodes + 1
           called == reaches /\ DeadlineDue(counted, NODE_CHECK_MODULUS)
           tripped == called /\ stop_search(IsSome(expiredAt))
           expanded == reaches /\ ~tripped
       IN /\ nodes' = counted
          /\ STOP' = tripped
          /\ polled' = [valid |-> TRUE, fn |-> fn, nodes |-> counted,
                        reached |-> reaches, called |-> called,
                        late |-> IF IsSome(expiredAt) /\ expanded
                                 THEN polled.late + 1 ELSE polled.late]
  /\ steps' = steps + 1
  /\ UNCHANGED << game, decay, hashVars, tt_size, expiredAt, evaluated, penalised, scored, normalized, pos,
                  TT_HITS, ply, dataVars, heurVars, pvVars, ttVars, stack, ret,
                  drvVars, lastRet, stopMark, entered, lastStore, lastProbe >>

\* Date.now() - START_TIME goes past SEARCH_TIMEOUT_MS.
DeadlinePassesStep ==
  /\ dpc = "budget" /\ expiredAt = None
  /\ expiredAt' = Some(nodes)
  /\ UNCHANGED << game, decay, hashVars, tt_size, polled, evaluated, penalised, scored, normalized, pos, STOP,
                  TT_HITS, nodes, ply, dataVars, heurVars, pvVars, ttVars,
                  stack, ret, drvVars, lastRet, stopMark, entered, lastStore,
                  lastProbe, steps >>

NextBudget ==
  \/ CountNodeStep
  \/ DeadlinePassesStep

SpecBudget == InitBudget /\ [][NextBudget]_vars

(***************************************************************************)
(* evaluate_position on a board (evaluation.rs 419-796).  The board is the *)
(* pieces in the order getCoordsOfAllPieces enumerates them, each with its *)
(* type (colour * NUM_TYPES + raw type) and coordinates, and whosTurn.     *)
(* The coordinates of the boards evaluated are small, so that no i32       *)
(* product or sum of the function leaves its range.                        *)
(***************************************************************************)
PAWN_VALUE == 100
KNIGHT_VALUE == 300
BISHOP_VALUE == 450
ROOK_VALUE == 650
QUEEN_VALUE == 1400
KING_VALUE == 20000
DEVELOPMENT_BONUS == 6
CENTRALITY_BONUS == 5
BACK_RANK_BONUS == 25
QUEEN_KNIGHT_PROXIMITY_BONUS == 30
PAWN_RANK_BONUS == 10
PASSED_PAWN_RANK_BONUS == 25
PAWN_SHIELD_BONUS == 20
SAMPLE_SIZE == 20
DEFAULT_AVG_DIST_SQ == 100

\* i32 division, which truncates towards zero.
TruncDiv(a, b) ==
  LET q == Abs(a) \div Abs(b)
  IN IF (a < 0) # (b < 0) THEN -q ELSE q

RECURSIVE SumTo(_, _)
SumTo(vals, n) == IF n = 0 THEN 0 ELSE SumTo(vals, n - 1) + vals[n]
Sum(vals) == SumTo(vals, Len(vals))

\* Lines 462-469: piece_value_lookup
piece_value(raw_type) ==
  CASE raw_type = RAW_TYPE_PAWN -> PAWN_VALUE
    [] raw_type = RAW_TYPE_KNIGHT -> KNIGHT_VALUE
    [] raw_type = RAW_TYPE_BISHOP -> BISHOP_VALUE
    [] raw_type = RAW_TYPE_ROOK -> ROOK_VALUE
    [] raw_type = RAW_TYPE_QUEEN -> QUEEN_VALUE
    [] raw_type = RAW_TYPE_KING -> KING_VALUE
    [] OTHER -> 0

squared_distance(x1, y1, x2, y2) ==
  LET dx == x1 - x2
      dy == y1 - y2
  IN dx * dx + dy * dy

\* The first pass files a piece under white when its colour is WHITE and
\* under black otherwise.
FiledWhite(piece) == get_color_from_type(piece.type) = WHITE
OfKind(pieces, white, raw_type) ==
  SelectSeq(pieces, LAMBDA q : FiledWhite(q) = white /\ get_raw_type(q.type) = raw_type)

\* Lines 491-498: the king of a side is the last one enumerated.
king_coords(pieces, white) ==
  LET kings == OfKind(pieces, white, RAW_TYPE_KING)
  IN IF kings = << >> THEN None ELSE Some(kings[Len(kings)])

\* Lines 500-557: the material balance.
material_balance(pieces) ==
  Sum([i \in 1 .. Len(pieces) |->
         IF FiledWhite(pieces[i]) THEN piece_value(get_raw_type(pieces[i].type))
         ELSE -piece_value(get_raw_type(pieces[i].type))])

\* Lines 566-585: the centre of mass of the pieces.
center_of_mass(pieces) ==
  LET n == Len(pieces)
      sx == Sum([i \in 1 .. n |-> pieces[i].x])
      sy == Sum([i \in 1 .. n |-> pieces[i].y])
  IN IF n > 0 THEN [x |-> TruncDiv(sx, n), y |-> TruncDiv(sy, n)]
     ELSE [x |-> 0, y |-> 0]

\* Lines 587-613: the sum of the squared distances over the pairs of the
\* sample, and the number of pairs.
sample_indices(n) ==
  LET sample_size == Min(SAMPLE_SIZE, n)
  IN [j \in 1 .. sample_size |-> (((j - 1) * n) \div sample_size) + 1]
\* The inner loop of lines 598-611 for the sample's i-th piece: the pairs it
\* makes with the later pieces of the sample.
pairs_from(pieces, idx, i) ==
  [j \in 1 .. Len(idx) |->
     IF i < j
     THEN squared_distance(pieces[idx[i]].x, pieces[idx[i]].y,
                           pieces[idx[j]].x, pieces[idx[j]].y)
     ELSE 0]
sum_dist_sq(pieces) ==
  LET idx == sample_indices(Len(pieces))
  IN Sum([i \in 1 .. Len(idx) |-> Sum(pairs_from(pieces, idx, i))])
pair_count(pieces) ==
  LET idx == sample_indices(Len(pieces))
  IN Sum([i \in 1 .. Len(idx) |-> Len(idx) - i])

\* Lines 615-628: avg_dist_sq
avg_dist_sq(pieces) ==
  IF pair_count(pieces) > 0
  THEN TruncDiv(sum_dist_sq(pieces), pair_count(pieces))
  ELSE DEFAULT_AVG_DIST_SQ

\* Lines 636-682: a knight, for the side that owns it.
knight_score(q, white, enemy_king, center, avg) ==
  LET development == IF q.y # (IF white THEN 1 ELSE 8) THEN DEVELOPMENT_BONUS ELSE 0
      dist_sq_to_center == squared_distance(q.x, q.y, center.x, center.y)
      centrality_bonus ==
        CENTRALITY_BONUS - TruncDiv(CENTRALITY_BONUS * dist_sq_to_center, avg * 2)
      dist_sq_to_king == squared_distance(q.x, q.y, enemy_king.x, enemy_king.y)
      dist_scale == Min(avg, dist_sq_to_king)
      third == QUEEN_KNIGHT_PROXIMITY_BONUS \div 3
  IN development + Max(0, centrality_bonus)
     + (third - TruncDiv(third * dist_scale, avg))

\* Lines 684-730: a queen, for the side that owns it.
queen_score(q, white, enemy_king, avg) ==
  LET development == IF q.y # (IF white THEN 1 ELSE 8) THEN DEVELOPMENT_BONUS ELSE 0
      dist_sq_to_king == squared_distance(q.x, q.y, enemy_king.x, enemy_king.y)
      distance_scale == Min(avg, dist_sq_to_king)
      proximity == QUEEN_KNIGHT_PROXIMITY_BONUS
                   - TruncDiv(QUEEN_KNIGHT_PROXIMITY_BONUS * distance_scale, avg)
      back_rank == IF (white /\ q.y >= enemy_king.y) \/ (~white /\ q.y <= enemy_king.y)
                   THEN BACK_RANK_BONUS ELSE 0
  IN development + proximity + back_rank

\* Lines 732-746: a bishop or a rook, for the side that owns it.
development_score(q, white) ==
  IF q.y # (IF white THEN 1 ELSE 8) THEN DEVELOPMENT_BONUS ELSE 0

\* is_passed_pawn_infinite (evaluation.rs 801-819)
is_passed_pawn_infinite(pawn, opponent_pawns, white) ==
  \A i \in 1 .. Len(opponent_pawns) :
    LET opp == opponent_pawns[i]
    IN ~(/\ Abs(opp.x - pawn.x) <= 1
         /\ (IF white THEN opp.y > pawn.y ELSE opp.y < pawn.y))

\* Lines 752-775: a pawn, for the side that owns it.
pawn_score(q, white, own_king, opponent_pawns) ==
  LET ranks_advanced ==
        IF white
        THEN Max(q.y - (IF IsSome(own_king) THEN Unwrap(own_king).y - 1 ELSE 2), 0)
        ELSE Max((IF IsSome(own_king) THEN Unwrap(own_king).y + 1 ELSE 7) - q.y, 0)
      is_passed == IF is_passed_pawn_infinite(q, opponent_pawns, white) THEN 1 ELSE 0
  IN ranks_advanced * PAWN_RANK_BONUS
     + (ranks_advanced * (PASSED_PAWN_RANK_BONUS - PAWN_RANK_BONUS)) * is_passed

\* count_adjacent_pawns_infinite (evaluation.rs 822-833)
count_adjacent_pawns_infinite(king, pawns) ==
  Sum([i \in 1 .. Len(pawns) |->
         IF Abs(pawns[i].x - king.x) <= 1 /\ Abs(pawns[i].y - king.y) <= 1
         THEN 1 ELSE 0])

\* Lines 631-788: what the pieces of one side add to its account.
side_score(pieces, white, center, avg) ==
  LET own_king == king_coords(pieces, white)
      enemy_king == king_coords(pieces, ~white)
      kings == IsSome(king_coords(pieces, TRUE)) /\ IsSome(king_coords(pieces, FALSE))
      knights == OfKind(pieces, white, RAW_TYPE_KNIGHT)
      queens == OfKind(pieces, white, RAW_TYPE_QUEEN)
      others == OfKind(pieces, white, RAW_TYPE_BISHOP) \o OfKind(pieces, white, RAW_TYPE_ROOK)
      pawns == OfKind(pieces, white, RAW_TYPE_PAWN)
      opponent_pawns == OfKind(pieces, ~white, RAW_TYPE_PAWN)
  IN (IF kings
      THEN Sum([i \in 1 .. Len(knights) |->
                  knight_score(knights[i], white, Unwrap(enemy_king), center, avg)])
           + Sum([i \in 1 .. Len(queens) |->
                    queen_score(queens[i], white, Unwrap(enemy_king), avg)])
           + Sum([i \in 1 .. Len(others) |-> development_score(others[i], white)])
      ELSE 0)
     + Sum([i \in 1 .. Len(pawns) |->
              pawn_score(pawns[i], white, own_king, opponent_pawns)])
     + (IF IsSome(own_king)
        THEN count_adjacent_pawns_infinite(Unwrap(own_king), pawns) * PAWN_SHIELD_BONUS
        ELSE 0)

\* Mutant of SideToMoveScore: the score is returned as white sees it.
SideToMoveScore_ForWhite(score, player_turn) == score

\* Lines 790-796: the score from the point of view of the player to move.
SideToMoveScore(score, player_turn) ==
  IF player_turn = WHITE THEN score ELSE -score

\* evaluate_position(game): the value returned, with the scale it divided by.
evaluate_position_board(b) ==
  LET avg == avg_dist_sq(b.pieces)
      center == center_of_mass(b.pieces)
      score == material_balance(b.pieces)
               + side_score(b.pieces, TRUE, center, avg)
               - side_score(b.pieces, FALSE, center, avg)
  IN [avg_dist_sq |-> avg, score |-> score,
      value |-> SideToMoveScore(score, b.whosTurn)]

\* The boards evaluated: a lone king; a king with a pawn next to it; the two
\* kings next to each other; a middle game with pieces of every kind the
\* function looks at, some on negative coordinates; and an opening with more
\* than SAMPLE_SIZE pieces.
MaxEvalSteps == 2
Man(raw_type, player, x, y) == Piece(build_type(raw_type, player), x, y)
Rank(raw_type, player, y, n) == [i \in 1 .. n |-> Man(raw_type, player, i, y)]
EvalPieceLists ==
  { << Man(RAW_TYPE_KING, WHITE, 5, 1) >>,
    << Man(RAW_TYPE_KING, WHITE, 5, 1), Man(RAW_TYPE_PAWN, WHITE, 5, 2) >>,
    << Man(RAW_TYPE_KING, WHITE, 5, 1), Man(RAW_TYPE_KING, BLACK, 5, 2) >>,
    << Man(RAW_TYPE_KING, WHITE, -3, 1), Man(RAW_TYPE_KING, BLACK, 4, 8),
       Man(RAW_TYPE_KNIGHT, WHITE, -1, 3), Man(RAW_TYPE_KNIGHT, BLACK, 2, 8),
       Man(RAW_TYPE_QUEEN, WHITE, 3, 9), Man(RAW_TYPE_QUEEN, BLACK, -9, -4),
       Man(RAW_TYPE_ROOK, WHITE, -4, 1), Man(RAW_TYPE_BISHOP, BLACK, 6, 5),
       Man(RAW_TYPE_PAWN, WHITE, -3, 2), Man(RAW_TYPE_PAWN, WHITE, 1, 5),
       Man(RAW_TYPE_PAWN, BLACK, 2, 6), Man(RAW_TYPE_PAWN, BLACK, -7, 3) >>,
    Rank(RAW_TYPE_PAWN, WHITE, 2, 8) \o Rank(RAW_TYPE_PAWN, BLACK, 7, 8)
      \o << Man(RAW_TYPE_KING, WHITE, 5, 1), Man(RAW_TYPE_KING, BLACK, 5, 8),
            Man(RAW_TYPE_QUEEN, WHITE, 4, 1), Man(RAW_TYPE_KNIGHT, BLACK, 2, 8),
            Man(RAW_TYPE_ROOK, WHITE, 1, 1), Man(RAW_TYPE_BISHOP, BLACK, 3, 8) >> }
EvalBoards == [pieces : EvalPieceLists, whosTurn : { WHITE, BLACK }]

InitEval ==
  /\ game = NoGame
  /\ decay = << 1, 1 >>
  /\ InitEngine("eval")
  /\ tt_size = TT_SIZE
  /\ board \in EvalBoards
  /\ overflow_checks = FALSE
  /\ hashed = << >>

\* evaluate_position is called on the board.
EvaluateStep ==
  /\ dpc = "eval" /\ steps < MaxEvalSteps
  /\ LET r == evaluate_position_board(board)
         e == [pieces |-> board.pieces, whosTurn |-> board.whosTurn,
               avg_dist_sq |-> r.avg_dist_sq, value |-> r.value]
     IN evaluated' = << e >> \o (IF evaluated = << >> THEN << >> ELSE << evaluated[1] >>)
  /\ steps' = steps + 1
  /\ UNCHANGED << game, decay, hashVars, tt_size, polled, expiredAt, penalised, scored, normalized, pos, STOP,
                  TT_HITS, nodes, ply, dataVars, heurVars, pvVars, ttVars,
                  stack, ret, drvVars, lastRet, stopMark, entered, lastStore,
                  lastProbe >>

\* A move of the game: the piece enumerated first goes to a free square next
\* to its own.
MovePieceStep ==
  /\ dpc = "eval" /\ steps < MaxEvalSteps
  /\ \E dx \in { -1, 0, 1 }, dy \in { -1, 0, 1 } :
       LET q == board.pieces[1]
           x == q.x + dx
           y == q.y + dy
       IN /\ \A i \in DOMAIN board.pieces : ~(board.pieces[i].x = x /\ board.pieces[i].y = y)
          /\ board' = [board EXCEPT !.pieces[1] = [q EXCEPT !.x = x, !.y = y]]
  /\ steps' = steps + 1
  /\ UNCHANGED << game, decay, auxVars, overflow_checks, hashed, pos, STOP,
                  TT_HITS, nodes, ply, dataVars, heurVars, pvVars, ttVars,
                  stack, ret, drvVars, lastRet, stopMark, entered, lastStore,
                  lastProbe >>

NextEval ==
  \/ EvaluateStep
  \/ MovePieceStep
  \/ TurnStep

SpecEval == InitEval /\ [][NextEval]_vars

(***************************************************************************)
(* score_move on its own (evaluation.rs 162-366): the moves of a node at   *)
(* the root or below it are scored, each given by what the function reads  *)
(* of the move, of the board and of the tables.                            *)
(***************************************************************************)
OrderPlies == { 0, 1 }
AttackerTypes ==
  { RAW_TYPE_PAWN, RAW_TYPE_KNIGHT, RAW_TYPE_BISHOP, RAW_TYPE_ROOK, RAW_TYPE_QUEEN }
VictimTypes ==
  AttackerTypes \cup { RAW_TYPE_AMAZON, RAW_TYPE_ROYALQUEEN, RAW_TYPE_CHANCELLOR,
                       RAW_TYPE_ARCHBISHOP, RAW_TYPE_KNIGHTRIDER, RAW_TYPE_GUARD }
PromotionTypes ==
  { RAW_TYPE_QUEEN, RAW_TYPE_ROOK, RAW_TYPE_BISHOP, RAW_TYPE_KNIGHT }
WhiteTypes(raws) == { Some(build_type(r, WHITE)) : r \in raws }
BlackTypes(raws) == { Some(build_type(r, BLACK)) : r \in raws }

\* Captures: by any of the five attackers without a promotion, by a pawn with
\* one, and en passant (the end square of the pawn is empty).
CaptureMoves ==
  [ply : OrderPlies, pv : BOOLEAN, tt : BOOLEAN, en_passant : { FALSE },
   moved : WhiteTypes(AttackerTypes), captured : BlackTypes(VictimTypes),
   promotion : { None }, killer1 : { FALSE }, killer2 : { FALSE },
   counter : { FALSE }, cont : { None }, hist : { None }]
  \cup
  [ply : OrderPlies, pv : BOOLEAN, tt : BOOLEAN, en_passant : { FALSE },
   moved : WhiteTypes({ RAW_TYPE_PAWN }), captured : BlackTypes(VictimTypes),
   promotion : WhiteTypes(PromotionTypes), killer1 : { FALSE }, killer2 : { FALSE },
   counter : { FALSE }, cont : { None }, hist : { None }]
  \cup
  [ply : OrderPlies, pv : BOOLEAN, tt : BOOLEAN, en_passant : { TRUE },
   moved : WhiteTypes({ RAW_TYPE_PAWN }), captured : { None },
   promotion : { None }, killer1 : { FALSE }, killer2 : { FALSE },
   counter : { FALSE }, cont : { None }, hist : { None }]

\* Quiet moves, with or without a promotion: every combination of killer and
\* counter-move matches, and the history and continuation-history entries
\* absent or at their bound.
QuietMoves ==
  [ply : OrderPlies, pv : BOOLEAN, tt : BOOLEAN, en_passant : { FALSE },
   moved : WhiteTypes({ RAW_TYPE_KNIGHT }), captured : { None },
   promotion : { None }, killer1 : BOOLEAN, killer2 : BOOLEAN,
   counter : BOOLEAN, cont : { None, Some(HISTORY_MAX) },
   hist : { None, Some(HISTORY_MAX) }]
  \cup
  [ply : OrderPlies, pv : BOOLEAN, tt : BOOLEAN, en_passant : { FALSE },
   moved : WhiteTypes({ RAW_TYPE_PAWN }), captured : { None },
   promotion : WhiteTypes(PromotionTypes), killer1 : BOOLEAN, killer2 : BOOLEAN,
   counter : BOOLEAN, cont : { None, Some(HISTORY_MAX) }, hist : { None }]
OrderMoves == CaptureMoves \cup QuietMoves

InitOrder ==
  /\ game = NoGame
  /\ decay = << 1, 1 >>
  /\ InitEngine("order")
  /\ tt_size = TT_SIZE
  /\ NoHashing

\* score_move is called on a capture.
ScoreCaptureStep ==
  /\ dpc = "order"
  /\ \E mv \in CaptureMoves : scored' = Some([mv |-> mv, score |-> score_move(mv)])
  /\ UNCHANGED << game, decay, hashVars, tt_size, polled, expiredAt, evaluated,
                  penalised, normalized, steps, pos, STOP, TT_HITS, nodes, ply, dataVars,
                  heurVars, pvVars, ttVars, stack, ret, drvVars, lastRet,
                  stopMark, entered, lastStore, lastProbe >>

\* score_move is called on a move that captures nothing.
ScoreQuietStep ==
  /\ dpc = "order"
  /\ \E mv \in QuietMoves : scored' = Some([mv |-> mv, score |-> score_move(mv)])
  /\ UNCHANGED << game, decay, hashVars, tt_size, polled, expiredAt, evaluated,
                  penalised, normalized, steps, pos, STOP, TT_HITS, nodes, ply, dataVars,
                  heurVars, pvVars, ttVars, stack, ret, drvVars, lastRet,
                  stopMark, entered, lastStore, lastProbe >>

NextOrder ==
  \/ ScoreCaptureStep
  \/ ScoreQuietStep

SpecOrder == InitOrder /\ [][NextOrder]_vars

(***************************************************************************)
(* Properties of the search.                                               *)
(***************************************************************************)
\* C1: every call of negamax or quiescence_search returns with as many
\* rewinds as makes (null moves included) issued during the call, and with
\* the position and the ply it was entered with, on every exit path.
MakeUnmakeBalanced ==
  lastRet.fn # "none" =>
    /\ lastRet.mk = lastRet.unmk
    /\ lastRet.exitPos = lastRet.entryPos
    /\ lastRet.exitPly = lastRet.entryPly

\* A negamax call below the root that made a null move and other moves, its
\* callees' included, returned TIME_UP.
TimeUpAfterMakes ==
  /\ lastRet.fn = "negamax" /\ lastRet.how = "time_up" /\ lastRet.entryPly >= 1
  /\ lastRet.nulls >= 1 /\ lastRet.mk >= 3

\* C2: when an iteration is broken off (negamax returned TIME_UP or the stop
\* flag was set when it returned), the driver keeps its best move: the move
\* returned is the PV[0][0] recorded at the end of the last iteration that
\* completed without a stop, whatever the broken-off iteration wrote there.
AbortKeepsBestMove ==
  /\ (STOP /\ dpc \in { "finish", "done" }) => best_move = adopted
  /\ (STOP /\ dpc = "done" /\ IsSome(adopted)) => result = adopted

\* A search was broken off after the iteration had replaced the PV[0][0] that
\* the last completed iteration recorded.
AbortAfterPvOverwritten ==
  /\ dpc = "done" /\ STOP /\ IsSome(adopted)
  /\ IsSome(pv_table[0][0]) /\ pv_table[0][0] # adopted

\* C3: find_best_move returns the null sentinel exactly when the root has no
\* legal move; otherwise it returns a legal root move: the adopted PV[0][0],
\* or the first legal move when no iteration adopted one.
ReturnsLegalMoveOrNull ==
  dpc = "done" =>
    LET legal == LegalMoves(<< >>)
    IN /\ (result = None) <=> (Len(legal) = 0)
       /\ IsSome(result) => \E j \in 1 .. Len(legal) : legal[j] = Unwrap(result)
       /\ IsSome(adopted) => result = adopted
       /\ (~IsSome(adopted) /\ Len(legal) > 0) => result = Some(legal[1])

\* A search in which no iteration adopted a move returned the first legal
\* move although the broken-off iteration had recorded another PV[0][0].
FallbackToFirstLegalMove ==
  /\ dpc = "done" /\ ~IsSome(adopted) /\ IsSome(result)
  /\ IsSome(pv_table[0][0]) /\ pv_table[0][0] # result

\* C4: once the stop flag is set, every negamax and quiescence_search call
\* that was in flight returns TIME_UP, never a normal score.
StopReturnsTimeUp ==
  lastRet.inflight => lastRet.value = TIME_UP

\* A negamax call that was in flight when the flag was set returned a
\* normal score.
InFlightReturnsScore ==
  lastRet.inflight /\ lastRet.fn = "negamax" /\ lastRet.value # TIME_UP

\* C8: after every killer update the two killer slots of the ply hold
\* different moves.
KillerSlotsDiffer ==
  \A q \in Plies :
    IsSome(killer_moves[0][q]) => killer_moves[0][q] # killer_moves[1][q]

\* The same quiet move caused two beta cutoffs at one ply.
KillerSlotsEqual ==
  \E q \in Plies :
    IsSome(killer_moves[0][q]) /\ killer_moves[0][q] = killer_moves[1][q]

\* C10: for every ply p entered by negamax in the current iteration,
\* PVLen[p] >= p and PV[p][i] holds a move for every i with p <= i < PVLen[p].
PvWellFormed ==
  \A q \in entered :
    /\ pv_length[q] >= q
    /\ \A j \in q .. (pv_length[q] - 1) : IsSome(pv_table[q][j])

\* The PV was updated at ply MAX_PLY - 1, where the length is not copied, and
\* then at the two plies above it, whose rows took over its move and length.
PvUpdatedAtLastPly ==
  /\ { MAX_PLY - 3, MAX_PLY - 2, MAX_PLY - 1 } \subseteq entered
  /\ IsSome(pv_table[MAX_PLY - 1][MAX_PLY - 1])
  /\ pv_length[MAX_PLY - 1] = MAX_PLY - 1
  /\ pv_table[MAX_PLY - 3][MAX_PLY - 1] = pv_table[MAX_PLY - 1][MAX_PLY - 1]
  /\ pv_length[MAX_PLY - 3] = MAX_PLY - 1

\* The moves of row q of the PV table within its length, Some-wrapped.
PvRow(q) == [i \in 1 .. (pv_length[q] - q) |-> pv_table[q][q + i - 1]]

\* Whether the moves ms can be made one after the other from the position p,
\* each being a legal move of the position it is made in.
RECURSIVE ReplaysLegally(_, _)
ReplaysLegally(p, ms) ==
  IF ms = << >> THEN TRUE
  ELSE /\ IsSome(Head(ms))
       /\ \E j \in 1 .. Len(LegalMoves(p)) : LegalMoves(p)[j] = Unwrap(Head(ms))
       /\ ReplaysLegally(MakeMove(p, Unwrap(Head(ms))), Tail(ms))

\* C11: for every ply p with a node of negamax (a running call past its
\* entry, or the call that returned last), the moves PV[p][p .. PVLen[p]-1]
\* are legal moves when replayed from the position of that node.
PvRowsLegal ==
  /\ \A k \in 1 .. Len(stack) :
       (stack[k].fn = "negamax" /\ stack[k].pc # "entry"
          /\ stack[k].entryPly < MAX_PLY) =>
         ReplaysLegally(stack[k].entryPos, PvRow(stack[k].entryPly))
  /\ (lastRet.fn = "negamax" /\ lastRet.entryPly < MAX_PLY) =>
       ReplaysLegally(lastRet.entryPos, PvRow(lastRet.entryPly))

\* A later move of a node with a null window took the score alpha + 1 without
\* a search, and the row of the node got the reply found for an earlier move.
PvTailFromOtherMove ==
  /\ lastRet.fn = "negamax" /\ lastRet.how = "beta_cutoff"
  /\ lastRet.entryPly < MAX_PLY
  /\ pv_length[lastRet.entryPly] >= lastRet.entryPly + 2
  /\ ~ReplaysLegally(lastRet.entryPos, PvRow(lastRet.entryPly))

\* C25: every move that negamax applies in its main loop is searched before
\* its score is used: when the move is about to be undone at least one call
\* of negamax was made on the position after it, the score is the negation of
\* the value the last call returned, and for a move that is not the first and
\* is not reduced that call is the full-window search at depth - 1.
SearchedBeforeScored ==
  \A k \in 1 .. Len(stack) :
    (stack[k].fn = "negamax" /\ stack[k].pc = "post") =>
      LET f == stack[k]
          n == Len(f.calls)
      IN /\ n >= 1
         /\ f.calls[n].returned
         /\ f.score = -f.calls[n].value
         /\ (f.moves_searched > 0 /\ f.calls[1].kind # "reduced") =>
              /\ f.calls[n].kind = "full"
              /\ f.calls[n].depth = f.depth - 1
              /\ f.calls[n].alpha = -f.beta /\ f.calls[n].beta = -f.alpha

\* A move that is not the first of its node is about to be undone with the
\* score alpha + 1 and no call of negamax was made on the position after it.
ScoredWithoutSearch ==
  /\ Running("negamax", "post")
  /\ Top.moves_searched > 0 /\ Top.calls = << >>
  /\ Top.score = Top.alpha + 1 /\ ~Top.pv_node

\* C26: the bound flags written by negamax and read by probe agree: a call
\* that returns on a transposition-table hit never returns alpha (a fail-low)
\* from an entry written at a beta cutoff, and never returns beta (a
\* fail-high) from an entry written after a move loop in which no move raised
\* alpha.
BoundFlagsAgree ==
  (lastRet.fn = "negamax" /\ lastRet.how = "tt_hit") =>
    /\ lastRet.hit = "beta_cutoff" => lastRet.value # lastRet.alpha
    /\ lastRet.hit = "no_raise" => lastRet.value # lastRet.beta

\* A call returned beta on a hit of an entry written after a move loop in
\* which no move raised alpha.
FailHighFromNoRaiseEntry ==
  /\ lastRet.fn = "negamax" /\ lastRet.how = "tt_hit"
  /\ lastRet.hit = "no_raise" /\ lastRet.value = lastRet.beta
  /\ lastRet.alpha < lastRet.beta

\* C27: when the root call of an iteration has returned to find_best_move
\* without a stop, on a root position with at least one legal move, PV[0][0]
\* was written during that iteration (a root move raised alpha) and
\* PVLen[0] >= 1, whatever the root's static evaluation.
CompletedIterationWrotePv ==
  (/\ dpc = "wait" /\ stack = << >>
   /\ ret # TIME_UP /\ ~STOP
   /\ LegalMoves(pos) # << >>) =>
    /\ lastRet.fn = "negamax" /\ lastRet.entryPly = 0
    /\ lastRet.raised >= 1
    /\ pv_length[0] >= 1
    /\ IsSome(pv_table[0][0])

\* An iteration after the first completed without a stop and without a write
\* of PV[0][0]: the move about to be adopted is the one an earlier iteration
\* left there.
LeftoverAboutToBeAdopted ==
  /\ dpc = "wait" /\ stack = << >>
  /\ ret # TIME_UP /\ ~STOP
  /\ LegalMoves(pos) # << >>
  /\ iter_depth >= 2
  /\ lastRet.entryPly = 0 /\ lastRet.raised = 0
  /\ pv_length[0] = 0
  /\ IsSome(pv_table[0][0])

\* C30: the late-move reduction protocol: a move is searched at the reduced
\* depth depth - 1 - r with r > 0 only if it is quiet, not a promotion, the
\* node is not in check, depth >= 3 and at least 3 moves were searched at the
\* node before; the reduced depth is never negative; and when the reduced
\* null-window search returned a score above alpha, the move has been
\* searched again at depth - 1 with the window [-alpha-1, -alpha] before its
\* score is used.
LmrProtocol ==
  \A k \in 1 .. Len(stack) :
    (/\ stack[k].fn = "negamax" /\ stack[k].calls # << >>
     /\ stack[k].calls[1].kind = "reduced") =>
      LET f == stack[k]
          first == f.calls[1]
      IN /\ ~is_capture(f.entryPos, f.cur) /\ ~is_promotion(f.entryPos, f.cur)
         /\ ~InCheck(f.entryPos)
         /\ f.depth >= 3 /\ f.moves_searched >= 3
         /\ first.depth >= 0 /\ first.depth < f.depth - 1
         /\ first.alpha = -f.alpha - 1 /\ first.beta = -f.alpha
         /\ f.pc = "post" =>
              /\ first.returned
              /\ -first.value > f.alpha =>
                   /\ Len(f.calls) >= 2
                   /\ f.calls[2].kind = "null_window" /\ f.calls[2].returned
                   /\ f.calls[2].depth = f.depth - 1
                   /\ f.calls[2].alpha = -f.alpha - 1
                   /\ f.calls[2].beta = -f.alpha

\* A reduced search returned a score above alpha, the move was searched again
\* at full depth with the null window, and its score is about to be used.
ReducedThenResearched ==
  /\ Running("negamax", "post")
  /\ Len(Top.calls) >= 2
  /\ Top.calls[1].kind = "reduced" /\ -Top.calls[1].value > Top.alpha
  /\ Top.calls[2].kind = "null_window" /\ Top.calls[2].returned
  /\ Top.calls[1].depth < Top.calls[2].depth
  /\ ~STOP

\* The running node of negamax passes over the move its loop is at, without
\* making it: the loop goes to the next move.
SkipsMove ==
  /\ Running("negamax", "loop") /\ Top.i <= Len(Top.moves)
  /\ Len(stack') = Len(stack)
  /\ stack'[Len(stack)].pc = "loop" /\ stack'[Len(stack)].i = Top.i + 1

\* C31: late-move pruning never skips a move at the root, never skips a
\* capture, and skips no move of a node until more than 4 + 2*depth moves
\* have been searched at that node, also once skip_quiet has been set.
LmpSkipsOnlyLateQuiets ==
  [][SkipsMove =>
       /\ ply # 0
       /\ ~is_capture(pos, Top.moves[Top.i])
       /\ Top.moves_searched > 4 + 2 * Top.depth]_vars

\* A node has set skip_quiet and passed over a further quiet move after it.
SkippedAfterSkipQuiet ==
  /\ Running("negamax", "loop")
  /\ Top.skip_quiet /\ Top.i >= 3 /\ Top.i <= Len(Top.moves) + 1
  /\ Top.i - 1 > Top.moves_searched + 1

\* C32: a quiet move that equals one of the two killer slots of the node's
\* ply is never skipped by late-move pruning, wherever it stands in the
\* ordered move list and whichever moves were pruned before it at the node.
KillerNeverSkipped ==
  [][SkipsMove => ~is_killer(killer_moves, ply, Top.moves[Top.i])]_vars

\* A node that has set skip_quiet is at a quiet move that is a killer of its
\* ply: the move is passed over.
KillerAboutToBeSkipped ==
  /\ Running("negamax", "loop") /\ Top.i <= Len(Top.moves)
  /\ Top.skip_quiet
  /\ ~is_capture(pos, Top.moves[Top.i])
  /\ is_killer(killer_moves, ply, Top.moves[Top.i])

\* A node below the root is about to record its quiet move, which raised
\* alpha, as the counter move of the previous move (lines 669-697).
RecordsCounterMove ==
  /\ Running("negamax", "post") /\ ply >= 2
  /\ ~STOP /\ Top.score > Top.alpha /\ Top.is_quiet
  /\ IsSome(PrevMoveKey(ply - 1))

\* C33: at a node at ply p >= 1 the previous-move key under which the counter
\* move and the continuation history are recorded is the key of the move made
\* at ply p - 1 on the path to the node.
CounterKeyIsPathMove ==
  RecordsCounterMove =>
    Unwrap(PrevMoveKey(ply - 1)) = get_move_key(pos[Len(pos) - 1])

\* A counter move is about to be recorded under the key of a move other than
\* the move, not a null move, that led to the node.
CounterRecordedUnderOtherMove ==
  /\ RecordsCounterMove
  /\ Len(pos) = ply
  /\ pos[Len(pos) - 1] # NULL_MOVE
  /\ Unwrap(PrevMoveKey(ply - 1)) # get_move_key(pos[Len(pos) - 1])

\* negamax is at one of its two calls of store: the beta cutoff (line 728) or
\* the end of the move loop (line 771).
AtStore ==
  \/ /\ Running("negamax", "post")
     /\ Improved(Top, Top.score) /\ Top.score >= Top.beta
  \/ /\ Running("negamax", "loop") /\ Top.i > Len(Top.moves)

TableIndices(f) ==
  { f.entryPly }
    \cup (IF f.entryPly + 1 < MAX_PLY THEN { f.entryPly + 1 } ELSE {})
    \cup (IF f.entryPly > 0 THEN { f.entryPly - 1 } ELSE {})

\* C36: at entry to and at return from every call of negamax and
\* quiescence_search data.ply is the number of moves and null moves made and
\* not rewound, it lies in [0, MAX_PLY], it has on return the value it had on
\* entry, and every access to the killer, PV and PV-length tables uses a ply
\* index in [0, MAX_PLY).
PlyWithinTables ==
  /\ ply = Len(pos) /\ 0 <= ply /\ ply <= MAX_PLY
  /\ \A i \in DOMAIN stack :
       /\ (i = Len(stack) /\ stack[i].pc = "entry") => stack[i].entryPly = ply
       /\ stack[i].entryPly = Len(stack[i].entryPos)
       /\ stack[i].pc # "entry" => TableIndices(stack[i]) \subseteq 0 .. (MAX_PLY - 1)
  /\ lastRet.fn # "none" =>
       /\ lastRet.exitPly = lastRet.entryPly
       /\ lastRet.exitPly = Len(lastRet.exitPos)

\* A call entered at ply MAX_PLY came back from its ply-limit test while the
\* node above it, at the last ply of the tables, is in its move loop.
ReturnedFromLastPly ==
  /\ lastRet.how = "ply_limit" /\ lastRet.entryPly = MAX_PLY
  /\ Len(stack) >= 1 /\ Top.fn = "negamax" /\ Top.entryPly = MAX_PLY - 1
  /\ ply = MAX_PLY

\* The calls in flight that were entered at ply p.
CallsAtPly(p) == { i \in DOMAIN stack : stack[i].entryPly = p }

\* C37 as stated: the nesting of the recursive calls (the calls in flight
\* inside the root call) never exceeds MAX_PLY.
NestingWithinMaxPly == Len(stack) - 1 <= MAX_PLY

\* C37, amended: data.ply never exceeds MAX_PLY and at most two calls are in
\* flight at any one ply (a negamax call and the quiescence search or the
\* verification search it makes on its own position), one at the root and at
\* ply MAX_PLY, so that the nesting never exceeds 2 * MAX_PLY; the root call
\* of an iteration has a depth in 1 .. MAX_PLY.
NestingWithinTwicePly ==
  /\ ply <= MAX_PLY
  /\ \A p \in 0 .. MAX_PLY :
       Cardinality(CallsAtPly(p)) <= (IF p \in { 0, MAX_PLY } THEN 1 ELSE 2)
  /\ Len(stack) <= 2 * MAX_PLY
  /\ stack # << >> => stack[1].entryDepth \in 1 .. MAX_PLY

\* More calls are in flight than there are plies: the quiescence search that
\* a negamax call started on its own position has reached ply MAX_PLY.
DeeperThanPlies ==
  /\ Len(stack) = MAX_PLY + 2 /\ ply = MAX_PLY
  /\ \E p \in 1 .. (MAX_PLY - 1) : Cardinality(CallsAtPly(p)) = 2
  /\ Top.fn = "quiescence" /\ Top.entryPly = MAX_PLY

\* A call of negamax that ended: it was made with depth >= 1 on a position in
\* check without a legal move.
MatedCall(r) ==
  /\ r.fn = "negamax" /\ r.entryDepth >= 1
  /\ InCheck(r.entryPos) /\ LegalMoves(r.entryPos) = << >>

\* The steps of negamax that return before the moves are generated whatever
\* the static evaluation is.
EarlyExits == { "mdp", "tt_hit", "time_up" }

\* C12 as stated, for searches that were not stopped: a call of negamax with
\* depth >= 1 at ply p on a position in check without a legal move returns
\* -MATE_VALUE + p.
MateScoreAtEveryPly ==
  (MatedCall(lastRet) /\ ~lastRet.stopped) =>
    lastRet.value = -MATE_VALUE + lastRet.entryPly

\* C12: a call of negamax with depth >= 1 at a ply p below MAX_PLY on a
\* position in check without a legal move returns -MATE_VALUE + p, whatever
\* its window, unless mate-distance pruning, a transposition-table hit or the
\* deadline test returns first.
MateScoreBelowPlyLimit ==
  (MatedCall(lastRet) /\ lastRet.entryPly < MAX_PLY
     /\ lastRet.how \notin EarlyExits) =>
    /\ lastRet.how = "checkmate"
    /\ lastRet.value = -MATE_VALUE + lastRet.entryPly

MatedBelowRoot ==
  /\ MatedCall(lastRet) /\ lastRet.how = "checkmate"
  /\ lastRet.entryPly >= 2
  /\ lastRet.entryBeta - lastRet.entryAlpha = 1
  /\ lastRet.value = -MATE_VALUE + lastRet.entryPly

\* A call of negamax that ended: it was made with depth >= 1 on a position
\* not in check without a legal move.
StalematedCall(r) ==
  /\ r.fn = "negamax" /\ r.entryDepth >= 1
  /\ ~InCheck(r.entryPos) /\ LegalMoves(r.entryPos) = << >>

\* The steps of negamax that return before the moves are generated.
PreMoveExits ==
  EarlyExits \cup { "ply_limit", "rfp", "futility", "null_cutoff", "verification",
                    "razoring", "stand_pat" }

Mates(m) == InCheck(<< m >>) /\ LegalMoves(<< m >>) = << >>
RootHasMate == \E j \in 1 .. Len(LegalMoves(<< >>)) : Mates(LegalMoves(<< >>)[j])

\* The first iteration has just been completed.
FirstIterationDone == dpc = "iter" /\ iter_depth = 2

\* C14: when a legal move of the root position checkmates, the iteration of
\* depth 1 adopts a checkmating move as the best move and its call of negamax
\* returns MATE_VALUE - 1.
MateInOneFound ==
  (FirstIterationDone /\ RootHasMate) =>
    /\ IsSome(best_move) /\ Mates(Unwrap(best_move))
    /\ ret = MATE_VALUE - 1

MateInOneMissed ==
  /\ FirstIterationDone /\ RootHasMate
  /\ IsSome(best_move) /\ ~Mates(Unwrap(best_move))
  /\ lastRet.fn = "negamax" /\ lastRet.entryPly = 0
  /\ lastRet.value = evaluate_position(<< Unwrap(best_move) >>) * (-1)

\* C15: in a position whose side to move has only its king and pawns negamax
\* applies no null move, whatever the depth, the window and null_move are.
NoNullMoveInPawnEnding ==
  game.pawns_only => \A i \in 1 .. Len(pos) : pos[i] # NULL_MOVE

NullMoveInPawnEnding ==
  /\ game.pawns_only
  /\ Len(stack) >= 2 /\ stack[Len(stack) - 1].pc = "after_null"
  /\ Len(pos) > 0 /\ pos[Len(pos)] = NULL_MOVE

\* Where a frame's caller waits when it called for a real move.
RealMoveCalls == { "after_full", "after_reduced", "after_research" }

\* C16: the call of negamax made directly after the null move gets
\* null_move = false, every call of negamax made for a real move gets
\* null_move = true, and no two null moves follow each other on the path.
NullMoveNeverTwice ==
  /\ \A k \in 2 .. Len(stack) :
       stack[k].fn = "negamax" =>
         /\ stack[k - 1].pc = "after_null" => ~stack[k].null_move
         /\ stack[k - 1].pc \in RealMoveCalls => stack[k].null_move
  /\ \A i \in 1 .. (Len(pos) - 1) : ~(pos[i] = NULL_MOVE /\ pos[i + 1] = NULL_MOVE)

NullMoveChildDeep ==
  \E k \in 2 .. Len(stack) :
    /\ stack[k - 1].pc = "after_null" /\ ~stack[k].null_move
    /\ stack[k].pc = "null" /\ stack[k].depth >= 3

\* The step in which a call of find_best_move returns.
SearchReturns == dpc = "finish" /\ dpc' = "done"

\* The entries of the table a step wrote.
Written == { h \in DOMAIN tt' : h \notin DOMAIN tt \/ tt'[h] # tt[h] }

\* C17: the return of every call of find_best_move adds exactly 1 to the age
\* of the table, no other step changes the age, so it never decreases, and
\* every entry a search writes carries the age the search runs with.
AgeAdvancesOncePerSearch ==
  [][/\ SearchReturns => current_age' = current_age + 1
     /\ ~SearchReturns => current_age' = current_age
     /\ current_age' >= current_age
     /\ \A h \in Written : tt'[h].age = current_age /\ tt'[h].age = current_age'
    ]_vars

SecondSearchTimedOut ==
  /\ dpc = "done" /\ current_age = 2 /\ STOP
  /\ \E h \in DOMAIN tt : tt[h].age = 0
  /\ \E h \in DOMAIN tt : tt[h].age = 1

\* The first call of negamax of a search: the root frame of the first
\* iteration has not run yet.
AtFirstCall ==
  /\ dpc = "wait" /\ iter_depth = 1
  /\ Len(stack) = 1 /\ stack[1].fn = "negamax" /\ stack[1].pc = "entry"

\* The step that resets the state at the start of a search.
ResetStep == dpc \in { "idle", "done" } /\ dpc' = "iter"

\* C18: at the first call of negamax of every search the stop flag is false,
\* the node and hit counters are 0, the killers, the history, counter-move and
\* continuation-history tables, the PV table and the PV lengths are empty,
\* whatever the searches before left; the reset leaves the table's entries
\* as they are.
SearchStartsClean ==
  /\ [](AtFirstCall =>
         /\ ~STOP /\ nodes = 0 /\ TT_HITS = 0
         /\ \A s \in 0 .. 1, q \in Plies : killer_moves[s][q] = None
         /\ history = EmptyMap /\ counter_moves = EmptyMap
         /\ continuation_history = EmptyMap
         /\ \A q \in Plies, j \in Plies : pv_table[q][j] = None
         /\ \A q \in Plies : pv_length[q] = 0)
  /\ [][ResetStep => tt' = tt]_vars

SecondSearchAfterTimeout ==
  /\ AtFirstCall /\ current_age = 1
  /\ tt # EmptyMap
  /\ lastRet.how = "time_up" /\ lastRet.entryPly = 0

\* C21: a node of negamax or quiescence_search that reaches the node-budget
\* check calls stop_search exactly when the node counter is a multiple of
\* 2048.
DeadlineTestedEvery2048 ==
  (polled.valid /\ polled.reached) => (polled.called <=> polled.nodes % 2048 = 0)

\* C22: once the deadline has passed, the search expands at most one further
\* node before it starts unwinding.
UnwindsWithinOneNode ==
  IsSome(expiredAt) => polled.late <= 1

(***************************************************************************)
(* Properties of the transposition table.                                  *)
(***************************************************************************)
\* A probe of the hash just stored, at a depth the store covers.
ProbeFollowsStore ==
  /\ lastStore.valid /\ lastProbe.valid
  /\ lastProbe.hash = lastStore.hash
  /\ lastProbe.depth <= lastStore.depth

\* The score s stored at ply p1 as a probe at ply p2 reads it.
ReadAtPly(s, p1, p2) == AdjustScoreForProbe(AdjustScoreForStore(s, p1), p2)

\* C5 as stated: after store(h, d, flag, s, m), a probe of h at depth d' <= d
\* returns s (mate-adjusted for the probing ply) for EXACT, beta for
\* LOWER_BOUND when s >= beta, alpha for UPPER_BOUND when s <= alpha.
ProbeConsistentWithStore ==
  ProbeFollowsStore =>
    LET s == lastStore.score
    IN /\ lastStore.flag = "EXACT" =>
            lastProbe.res = ProbeScore(ReadAtPly(s, lastStore.ply, lastProbe.ply))
       /\ (lastStore.flag = "LOWER_BOUND" /\ s >= lastProbe.beta) =>
            lastProbe.res = ProbeScore(lastProbe.beta)
       /\ (lastStore.flag = "UPPER_BOUND" /\ s <= lastProbe.alpha) =>
            lastProbe.res = ProbeScore(lastProbe.alpha)

\* C5, amended: the same, provided the store wrote its entry (the table was
\* not full or the replacement policy let the entry in), and with the bounds
\* compared with s as read at the probing ply.
ProbeConsistentWithWrittenStore ==
  (ProbeFollowsStore /\ lastStore.wrote) =>
    LET s == ReadAtPly(lastStore.score, lastStore.ply, lastProbe.ply)
    IN /\ lastStore.flag = "EXACT" => lastProbe.res = ProbeScore(s)
       /\ (lastStore.flag = "LOWER_BOUND" /\ s >= lastProbe.beta) =>
            lastProbe.res = ProbeScore(lastProbe.beta)
       /\ (lastStore.flag = "UPPER_BOUND" /\ s <= lastProbe.alpha) =>
            lastProbe.res = ProbeScore(lastProbe.alpha)

\* A store replaced the entry of a full table and a probe of it returned beta
\* for its lower bound.
LowerBoundProbedAfterReplacement ==
  /\ ProbeFollowsStore /\ lastStore.wrote /\ steps = MaxTTStores
  /\ lastStore.flag = "LOWER_BOUND"
  /\ lastStore.score >= lastProbe.beta
  /\ lastProbe.res = ProbeScore(lastProbe.beta)

\* C6: probe returns a number other than NO_ENTRY only when the hash has an
\* entry of depth >= the depth asked; with a shallower entry it returns the
\* entry's best move if there is one and NO_ENTRY otherwise; without an entry
\* it returns NO_ENTRY.
ProbeScoreNeedsDepth ==
  lastProbe.valid =>
    LET r == lastProbe.res
        e == lastProbe.entry
    IN /\ (~r.is_move /\ r.score # NO_ENTRY) =>
            (IsSome(e) /\ Unwrap(e).depth >= lastProbe.depth)
       /\ (IsSome(e) /\ Unwrap(e).depth < lastProbe.depth) =>
            r = (IF IsSome(Unwrap(e).best_move)
                 THEN ProbeMove(Unwrap(e).best_move)
                 ELSE ProbeScore(NO_ENTRY))
       /\ ~IsSome(e) => r = ProbeScore(NO_ENTRY)

\* A probe deeper than the entry, whose flag and score would have matched
\* the window, returned the entry's move.
ShallowEntryGivesMove ==
  /\ lastProbe.valid /\ IsSome(lastProbe.entry)
  /\ Unwrap(lastProbe.entry).depth < lastProbe.depth
  /\ Unwrap(lastProbe.entry).flag = "EXACT"
  /\ lastProbe.res.is_move

\* C7: an EXACT entry stored at ply p1 with a mate score MATE_VALUE - (p1 + n)
\* (or -MATE_VALUE + (p1 + n)) is returned by a depth-sufficient probe at ply
\* p2 as MATE_VALUE - (p2 + n) (or -MATE_VALUE + (p2 + n)); a probe at the
\* ply of the store returns the score stored.
MateScorePlyIndependent ==
  (ProbeFollowsStore /\ lastStore.wrote /\ lastStore.flag = "EXACT") =>
    LET s == lastStore.score
        p1 == lastStore.ply
        p2 == lastProbe.ply
    IN /\ \A n \in 0 .. MAX_PLY :
            /\ s = MATE_VALUE - (p1 + n) =>
                 lastProbe.res = ProbeScore(MATE_VALUE - (p2 + n))
            /\ s = -MATE_VALUE + (p1 + n) =>
                 lastProbe.res = ProbeScore(-MATE_VALUE + (p2 + n))
       /\ p1 = p2 => lastProbe.res = ProbeScore(s)

\* A mate score stored at one ply was probed at another and came back shifted
\* by the difference of the plies.
MateScoreProbedAtOtherPly ==
  /\ ProbeFollowsStore /\ lastStore.wrote /\ lastStore.flag = "EXACT"
  /\ lastStore.score = MATE_VALUE - (lastStore.ply + MateDistance)
  /\ lastProbe.ply # lastStore.ply
  /\ lastProbe.res = ProbeScore(MATE_VALUE - (lastProbe.ply + MateDistance))

(***************************************************************************)
(* Properties of the history map.                                          *)
(***************************************************************************)
\* C9: every value of the history map is in [0, HISTORY_MAX], after bonuses,
\* penalties and a multiplicative decay with a factor in [0, 1].
HistoryInRange ==
  \A k \in DOMAIN history : 0 <= history[k] /\ history[k] <= HISTORY_MAX

\* One value was clamped at HISTORY_MAX and another was brought down to 0.
HistoryAtBothEnds ==
  \E k1, k2 \in DOMAIN history : history[k1] = HISTORY_MAX /\ history[k2] = 0

\* The keys of the quiet moves tried before the move that cut off.
EarlierTriedKeys(c) ==
  { get_move_key(c.tried[i]) : i \in DOMAIN c.tried } \ { c.key }

\* C34: at a quiet beta cutoff at depth d, with bonus = d*d*HISTORY_BONUS_DEPTH,
\* the history of every quiet move tried earlier at the node (key other than
\* the key of the cutoff move) becomes max(0, old - bonus/2), the history of
\* the cutoff move is not decreased, and the history of every other key is
\* left as it is.
PenaltyOfEarlierQuiets ==
  penalised.valid =>
    LET c == penalised
        bonus == c.depth * c.depth * HISTORY_BONUS_DEPTH
        keys == (DOMAIN c.before) \cup (DOMAIN c.after)
    IN /\ \A k \in EarlierTriedKeys(c) :
            HistoryGet(c.after, k) = Max(0, HistoryGet(c.before, k) - (bonus \div 2))
       /\ HistoryGet(c.after, c.key) >= HistoryGet(c.before, c.key)
       /\ \A k \in keys \ (EarlierTriedKeys(c) \cup { c.key }) :
            HistoryGet(c.after, k) = HistoryGet(c.before, k)

\* Two quiet moves with one key were tried before the cutoff and the history
\* of the key came down by the whole bonus.
PenalisedTwice ==
  /\ penalised.valid
  /\ \E i, j \in DOMAIN penalised.tried :
       /\ i # j /\ penalised.tried[i] = penalised.tried[j]
       /\ get_move_key(penalised.tried[i]) # penalised.key
       /\ HistoryGet(penalised.before, get_move_key(penalised.tried[i]))
            > penalised.depth * penalised.depth * HISTORY_BONUS_DEPTH
       /\ HistoryGet(penalised.after, get_move_key(penalised.tried[i]))
            = HistoryGet(penalised.before, get_move_key(penalised.tried[i]))
              - penalised.depth * penalised.depth * HISTORY_BONUS_DEPTH

(***************************************************************************)
(* Properties of the replacement policy and of the size of the table.      *)
(***************************************************************************)
\* The entry of hash h is replaced in this step by a non-EXACT entry of
\* smaller depth although it is EXACT, or by a non-EXACT entry more than one
\* depth lower although it has the current age.
ReplacedByWorse(h) ==
  /\ tt'[h] # tt[h]
  /\ tt'[h].flag # "EXACT"
  /\ \/ tt[h].flag = "EXACT" /\ tt'[h].depth < tt[h].depth
     \/ tt[h].age = current_age /\ tt'[h].depth < tt[h].depth - 1

\* C28: store never replaces an EXACT entry by a non-EXACT entry of smaller
\* depth, and never replaces an entry of the current age by a non-EXACT entry
\* more than one depth lower, whatever the number of entries in the table.
StoreNeverReplacesByWorse ==
  [][\A h \in DOMAIN tt : ~ReplacedByWorse(h)]_vars

\* get_entry_count: the number of entries the table holds.
get_entry_count(table) == Cardinality(DOMAIN table)

\* C29: after any sequence of store calls the number of entries held by the
\* table never exceeds its capacity size(); a store of a new hash into a full
\* table does not grow the table.
EntriesWithinCapacity == get_entry_count(tt) <= tt_size

\* find_best_move has returned and the table, to which negamax stored
\* positions under hashes it did not hold, has more entries than size().
GrownBeyondCapacity ==
  /\ dpc = "done"
  /\ get_entry_count(tt) > tt_size
  /\ DOMAIN origin = DOMAIN tt

(***************************************************************************)
(* Properties of evaluate_position.                                        *)
(***************************************************************************)
\* C23: for every piece map, the value evaluate_position returns with white
\* to move is the negation of the value it returns for the same piece map
\* with black to move.
EvalAntisymmetric ==
  \A a, b \in DOMAIN evaluated :
    (/\ evaluated[a].pieces = evaluated[b].pieces
     /\ evaluated[a].whosTurn = WHITE /\ evaluated[b].whosTurn = BLACK) =>
      evaluated[a].value = -evaluated[b].value

EvaluatedForBothSides ==
  /\ Len(evaluated) = 2 /\ evaluated[1].pieces = evaluated[2].pieces
  /\ evaluated[1].whosTurn = BLACK /\ evaluated[2].whosTurn = WHITE
  /\ Len(evaluated[1].pieces) > 2
  /\ evaluated[2].value # 0 /\ evaluated[2].value % 100 # 0

\* C24: the scale factor avg_d^2 that evaluate_position divides by is never
\* below 100, for every set of pieces on distinct squares.
ScaleAtLeast100 ==
  \A a \in DOMAIN evaluated : evaluated[a].avg_dist_sq >= 100

(***************************************************************************)
(* Properties of generate_hash.                                            *)
(***************************************************************************)
\* Two of the hashes computed were of the same pieces with the same side to move.
SameBoard(a, b) ==
  hashed[a].pieces = hashed[b].pieces /\ hashed[a].whosTurn = hashed[b].whosTurn

\* C19: two boards with the same set of (type, x, y) pieces and the same side
\* to move get the same hash, whatever the order the pieces are enumerated in
\* and whatever the table holds and its age is.
HashOfPieceSetAndTurn ==
  \A a, b \in DOMAIN hashed : SameBoard(a, b) => hashed[a].result = hashed[b].result

HashedInOtherOrderAndAge ==
  /\ Len(hashed) = 2 /\ SameBoard(1, 2)
  /\ hashed[1].age # hashed[2].age /\ hashed[1].stored # hashed[2].stored
  /\ hashed[1].first # hashed[2].first
  /\ Cardinality(hashed[1].pieces) = 3
  /\ ~hashed[1].result.panic

\* C20: for the same pieces the hash with whosTurn = 1 and the hash with
\* whosTurn = 2 differ, the turn term being whosTurn * 0x9E3779B9 wrapped to
\* an i32.
HashDiffersByTurn ==
  \A a, b \in DOMAIN hashed :
    (/\ hashed[a].pieces = hashed[b].pieces
     /\ hashed[a].whosTurn = 1 /\ hashed[b].whosTurn = 2
     /\ ~hashed[b].result.panic) =>
      /\ hashed[a].result.value # hashed[b].result.value
      /\ XorW(ToBits(hashed[a].result.value), ToBits(hashed[b].result.value))
           = XorW(ToBits(GOLDEN_RATIO), AddW(ToBits(GOLDEN_RATIO), ToBits(GOLDEN_RATIO)))

HashedForBothSides ==
  /\ Len(hashed) = 2 /\ hashed[1].pieces = hashed[2].pieces
  /\ hashed[1].whosTurn = 2 /\ hashed[2].whosTurn = 1
  /\ ~hashed[1].result.panic
  /\ hashed[1].result.value # hashed[2].result.value

(***************************************************************************)
(* Properties of score_move.                                               *)
(***************************************************************************)
\* The move is the one score_move tags as the PV move, as the TT move.
TaggedPv(mv) == mv.ply = 0 /\ mv.pv
TaggedTt(mv) == ~TaggedPv(mv) /\ mv.tt

\* The other moves of the node of the move scored last.
OtherMoves == { o \in OrderMoves : o.ply = Unwrap(scored).mv.ply }

\* C38 as stated: the PV move scores strictly higher than every other move,
\* and the TT move strictly higher than every move that is neither the PV
\* move nor the TT move.
PriorityLadder ==
  IsSome(scored) =>
    LET s == Unwrap(scored)
    IN /\ TaggedPv(s.mv) =>
            \A o \in OtherMoves : ~TaggedPv(o) => s.score > score_move(o)
       /\ TaggedTt(s.mv) =>
            \A o \in OtherMoves :
              (~TaggedPv(o) /\ ~TaggedTt(o)) => s.score > score_move(o)

\* A pawn that captures a queen and promotes to a queen, neither the PV move
\* nor the TT move, is scored above the TT move of its node.
PromotionCaptureAboveTTMove ==
  /\ IsSome(scored)
  /\ LET s == Unwrap(scored)
     IN /\ ~TaggedPv(s.mv) /\ ~TaggedTt(s.mv)
        /\ get_raw_type(TypeOrZero(s.mv.moved)) = RAW_TYPE_PAWN
        /\ get_raw_type(TypeOrZero(s.mv.captured)) = RAW_TYPE_QUEEN
        /\ get_raw_type(TypeOrZero(s.mv.promotion)) = RAW_TYPE_QUEEN
        /\ \E o \in OtherMoves : TaggedTt(o) /\ s.score > score_move(o)

\* A capture without a promotion that is neither en passant nor tagged.
PlainCapture(mv) ==
  /\ ~TaggedPv(mv) /\ ~mv.tt /\ ~mv.en_passant
  /\ IsSome(mv.captured) /\ ~IsSome(mv.promotion)
AttackerOf(mv) == get_raw_type(TypeOrZero(mv.moved))
VictimOf(mv) == get_raw_type(TypeOrZero(mv.captured))

\* The classes of the claim, most valuable first: queen, rook, bishop, knight,
\* pawn; 0 for a piece of none of them.
ValueClass(raw_type) ==
  IF raw_type \in { RAW_TYPE_QUEEN, RAW_TYPE_ROYALQUEEN, RAW_TYPE_AMAZON } THEN 5
  ELSE IF raw_type \in { RAW_TYPE_ROOK, RAW_TYPE_CHANCELLOR } THEN 4
  ELSE IF raw_type \in { RAW_TYPE_BISHOP, RAW_TYPE_ARCHBISHOP } THEN 3
  ELSE IF raw_type \in { RAW_TYPE_KNIGHT, RAW_TYPE_KNIGHTRIDER } THEN 2
  ELSE IF raw_type = RAW_TYPE_PAWN THEN 1
  ELSE 0

\* C39 as stated: among the captures without promotion of a node, with the
\* same attacker the victim of the more valuable class scores strictly
\* higher, and with the same victim the less valuable attacker (pawn, knight,
\* bishop, rook, queen) scores strictly higher.
MvvLvaOrder ==
  (IsSome(scored) /\ PlainCapture(Unwrap(scored).mv)) =>
    LET s == Unwrap(scored)
    IN \A o \in OtherMoves :
         PlainCapture(o) =>
           /\ (/\ AttackerOf(o) = AttackerOf(s.mv)
               /\ ValueClass(VictimOf(o)) >= 1
               /\ ValueClass(VictimOf(s.mv)) > ValueClass(VictimOf(o)))
                => s.score > score_move(o)
           /\ (/\ VictimOf(o) = VictimOf(s.mv)
               /\ ValueClass(AttackerOf(s.mv)) >= 1
               /\ ValueClass(AttackerOf(s.mv)) < ValueClass(AttackerOf(o)))
                => s.score > score_move(o)

\* A pawn takes a queen and is scored below the queen that takes the same
\* queen.
PawnBelowQueenAsAttacker ==
  /\ IsSome(scored) /\ PlainCapture(Unwrap(scored).mv)
  /\ AttackerOf(Unwrap(scored).mv) = RAW_TYPE_PAWN
  /\ VictimOf(Unwrap(scored).mv) = RAW_TYPE_QUEEN
  /\ \E o \in OtherMoves :
       /\ PlainCapture(o) /\ AttackerOf(o) = RAW_TYPE_QUEEN
       /\ VictimOf(o) = RAW_TYPE_QUEEN
       /\ score_move(o) > Unwrap(scored).score

(***************************************************************************)
(* Properties of normalize_coord_for_hash.                                 *)
(***************************************************************************)
\* The values the coordinates beyond the bound on one side normalise to.
OutsideValues(sign) ==
  { normalize_coord_for_hash(c) :
      c \in { d \in HashCoords : d * sign > HASH_COORD_BOUND } }

\* C40 as stated: a coordinate within the bound is returned as it is; one
\* outside it normalises to a value of its sign with a magnitude strictly
\* above the bound, one of exactly HASH_MODULO_BUCKETS values per sign, and so
\* never to the value of a coordinate within the bound.
NormalizedStaysOutside ==
  IsSome(normalized) =>
    LET coord == Unwrap(normalized).coord
        value == Unwrap(normalized).value
    IN /\ Abs(coord) <= HASH_COORD_BOUND => value = coord
       /\ Abs(coord) > HASH_COORD_BOUND =>
            /\ (value > 0) = (coord > 0)
            /\ Abs(value) > HASH_COORD_BOUND
            /\ Cardinality(OutsideValues(1)) = HASH_MODULO_BUCKETS
            /\ Cardinality(OutsideValues(-1)) = HASH_MODULO_BUCKETS
            /\ \A d \in HashCoords :
                 Abs(d) <= HASH_COORD_BOUND => normalize_coord_for_hash(d) # value

\* A coordinate outside the bound was normalised to the bound itself, the
\* value of a coordinate within the bound.
NormalizedOntoBound ==
  /\ IsSome(normalized)
  /\ Abs(Unwrap(normalized).coord) > HASH_COORD_BOUND
  /\ Abs(Unwrap(normalized).value) = HASH_COORD_BOUND
  /\ \E d \in HashCoords :
       /\ Abs(d) <= HASH_COORD_BOUND
       /\ normalize_coord_for_hash(d) = Unwrap(normalized).value

====
